---- MODULE Spec2Model ----
(***************************************************************************)
(* create-express-kickstart: the project generator (bin/cli.js), the       *)
(* template files it copies and patches (src/app.js, src/server.js), and   *)
(* the start-up of the server it generates.                                *)
(*                                                                         *)
(* Text is modelled as a sequence of lines.  A line is its indentation (a  *)
(* number of spaces) and the tokens of its text; a line is split into two  *)
(* tokens only where a pattern of cli.js can match a part of it.  A        *)
(* pattern of cli.js is matched token by token, so a pattern matches what  *)
(* its regular expression matches on every text built from these tokens.   *)
(* "\r?\n" of the patterns is the line break of the model.  A backquote of   *)
(* the source is written ' here: a TLA+ string holds no backquote.         *)
(***************************************************************************)
EXTENDS Integers, Sequences, FiniteSets, TLC

\* ------------------------------------------------------------------ text

L(i, t) == [ind |-> i, toks |-> <<t>>]
L2(i, t, u) == [ind |-> i, toks |-> <<t, u>>]
BL == [ind |-> 0, toks |-> <<>>]

AppJsTemplate ==
  << L(0, "import express from \"express\";"),
     L(0, "import cors from \"cors\";"),
     L(0, "import cookieParser from \"cookie-parser\";"),
     L(0, "import helmet from \"helmet\";"),
     L(0, "import pinoHttp from \"pino-http\";"),
     L(0, "import rateLimit from \"express-rate-limit\";"),
     L(0, "import { errorHandler } from \"#middlewares/errorHandler.middleware.js\";"),
     BL,
     L(0, "// Import routers"),
     L(0, "import healthcheckRouter from \"#routes/healthcheck.routes.js\";"),
     BL,
     L(0, "const app = express();"),
     BL,
     L(0, "// Security HTTP headers"),
     L(0, "app.use(helmet());"),
     BL,
     L(0, "// Rate Limiting"),
     L(0, "const limiter = rateLimit({"),
     L(4, "windowMs: process.env.RATE_LIMIT_WINDOW_MS || 15 * 60 * 1000, // Default 15 minutes"),
     L(4, "limit: process.env.RATE_LIMIT_MAX || 100, // Limit each IP to 100 requests per 'window' (here, per 15 minutes)"),
     L(4, "standardHeaders: 'draft-7', // draft-6: 'RateLimit-*' headers; draft-7: combined 'RateLimit' header"),
     L(4, "legacyHeaders: false, // Disable the 'X-RateLimit-*' headers"),
     L(4, "message: \"Too many requests from this IP, please try again later\""),
     L(0, "});"),
     L2(0, "app.use(\"/api\", limiter);", " // Apply rate limiting to all API routes"),
     BL,
     L(0, "// Logging"),
     L(0, "app.use(pinoHttp({"),
     L(4, "customLogLevel: function (req, res, err) {"),
     L(8, "if (res.statusCode >= 400 && res.statusCode < 500) {"),
     L(12, "return 'warn'"),
     L(8, "} else if (res.statusCode >= 500 || err) {"),
     L(12, "return 'error'"),
     L(8, "} else if (res.statusCode >= 300 && res.statusCode < 400) {"),
     L(12, "return 'silent'"),
     L(8, "}"),
     L(8, "return 'info'"),
     L(4, "},"),
     L(4, "// Dynamically require pino-pretty if in dev and it exists, else undefined"),
     L(4, "transport: process.env.NODE_ENV === \"development\" ? (function() {"),
     L(8, "try {"),
     L(12, "import(\"pino-pretty\");"),
     L(12, "return {"),
     L(16, "target: 'pino-pretty',"),
     L(16, "options: { colorize: true }"),
     L(12, "};"),
     L(8, "} catch (e) {"),
     L(12, "return undefined;"),
     L(8, "}"),
     L(4, "})() : undefined"),
     L(0, "}));"),
     BL,
     L(0, "// CORS setup"),
     L(0, "app.use("),
     L(4, "cors({"),
     L(8, "origin: process.env.CORS_ORIGIN || \"*\", // Fallback to allowing everything"),
     L(8, "credentials: true, // Allow cookies with requests"),
     L(4, "})"),
     L(0, ");"),
     BL,
     L(0, "// Payload sizes and forms"),
     L(0, "app.use(express.json({ limit: \"16kb\" }));"),
     L(0, "app.use(express.urlencoded({ extended: true, limit: \"16kb\" }));"),
     L(0, "app.use(express.static(\"public\")); "),
     L(0, "app.use(cookieParser());"),
     BL,
     L(0, "// -------- API ROUTES ---------"),
     L(0, "// Mount routers"),
     L(0, "app.use(\"/api/v1/healthcheck\", healthcheckRouter);"),
     BL,
     L(0, "// Global Error Handler"),
     L(0, "// Always add this as the very last middleware"),
     L(0, "app.use(errorHandler);"),
     BL,
     L(0, "export { app };") >>

ServerJsStatic ==
  << L(0, "import dotenv from \"dotenv\";"),
     L(0, "import { app } from \"#app.js\";"),
     BL,
     L2(0, "// Load environment variables", " from .env file"),
     L(0, "dotenv.config({"),
     L(4, "path: './.env'"),
     L(0, "});"),
     BL,
     L(0, "import connectDB from \"#db/index.js\";"),
     BL,
     L(0, "const PORT = process.env.PORT || 8000;"),
     BL,
     L(0, "connectDB()"),
     L(4, ".then(() => {"),
     L(8, "app.listen(PORT, () => {"),
     L(12, "console.log('Server is running at port : ${PORT}');"),
     L(8, "});"),
     L(4, "})"),
     L(4, ".catch((err) => {"),
     L(8, "console.log(\"MONGO db connection failed !!! \", err);"),
     L(4, "});"),
     BL,
     L(0, "process.on(\"unhandledRejection\", (err) => {"),
     L(4, "console.log(\"UNHANDLED REJECTION! Shutting down...\");"),
     L(4, "console.log(err.name, err.message);"),
     L(4, "process.exit(1);"),
     L(0, "});") >>

ServerJsGraceful ==
  << L(0, "import dotenv from \"dotenv\";"),
     L(0, "import { app } from \"#app.js\";"),
     BL,
     L2(0, "// Load environment variables", " from .env file"),
     L(0, "dotenv.config({"),
     L(4, "path: './.env'"),
     L(0, "});"),
     BL,
     L(0, "import connectDB from \"#db/index.js\";"),
     BL,
     L(0, "const PORT = process.env.PORT || 8000;"),
     BL,
     L(0, "// Handle uncaught exceptions before starting the server"),
     L(0, "process.on(\"uncaughtException\", (err) => {"),
     L(4, "console.log(\"UNCAUGHT EXCEPTION! Shutting down...\");"),
     L(4, "console.log(err.name, err.message);"),
     L(4, "process.exit(1);"),
     L(0, "});"),
     BL,
     L(0, "connectDB()"),
     L(4, ".then(() => {"),
     L2(8, "const server = ", "app.listen(PORT, () => {"),
     L(12, "console.log('Server is running at port : ${PORT}');"),
     L(8, "});"),
     BL,
     L(8, "// Graceful Shutdown"),
     L(8, "const gracefulShutdown = (signal) => {"),
     L(12, "console.log('${signal} received. Shutting down gracefully...');"),
     L(12, "server.close(() => {"),
     L(16, "console.log(\"HTTP server closed.\");"),
     L(16, "process.exit(0);"),
     L(12, "});"),
     L(12, "// Force exit if server hasn't closed within 10 seconds"),
     L(12, "setTimeout(() => {"),
     L(16, "console.error(\"Could not close connections in time, forcing shutdown.\");"),
     L(16, "process.exit(1);"),
     L(12, "}, 10000).unref();"),
     L(8, "};"),
     BL,
     L(8, "process.on(\"SIGTERM\", () => gracefulShutdown(\"SIGTERM\"));"),
     L(8, "process.on(\"SIGINT\", () => gracefulShutdown(\"SIGINT\"));"),
     L(4, "})"),
     L(4, ".catch((err) => {"),
     L(8, "console.log(\"MONGO db connection failed !!! \", err);"),
     L(4, "});"),
     BL,
     L(0, "process.on(\"unhandledRejection\", (err) => {"),
     L(4, "console.log(\"UNHANDLED REJECTION! Shutting down...\");"),
     L(4, "console.log(err.name, err.message);"),
     L(4, "process.exit(1);"),
     L(0, "});") >>

ServerJsLazy ==
  << L(0, "import dotenv from \"dotenv\";"),
     BL,
     L2(0, "// Load environment variables", " BEFORE importing modules that depend on them"),
     L(0, "dotenv.config({"),
     L(4, "path: './.env'"),
     L(0, "});"),
     BL,
     L(0, "const { app } = await import(\"#app.js\");"),
     L(0, "const { default: connectDB } = await import(\"#db/index.js\");"),
     BL,
     L(0, "const PORT = process.env.PORT || 8000;"),
     BL,
     L(0, "connectDB()"),
     L(4, ".then(() => {"),
     L(8, "app.listen(PORT, () => {"),
     L(12, "console.log('Server is running at port : ${PORT}');"),
     L(8, "});"),
     L(4, "})"),
     L(4, ".catch((err) => {"),
     L(8, "console.log(\"MONGO db connection failed !!! \", err);"),
     L(4, "});"),
     BL,
     L(0, "process.on(\"unhandledRejection\", (err) => {"),
     L(4, "console.log(\"UNHANDLED REJECTION! Shutting down...\");"),
     L(4, "console.log(err.name, err.message);"),
     L(4, "process.exit(1);"),
     L(0, "});") >>

\* ------------------------------------------------- String.prototype.replace

Min(S) == CHOOSE x \in S : \A y \in S : x <= y

Indent(l, k) == [l EXCEPT !.ind = @ + k]

\* The text with lines i..j replaced by repl.  k is what is left of line i in
\* front of the match (spaces of its indentation the pattern did not take): it
\* stays, in front of the text that follows.
Splice(code, i, j, repl, k) ==
  LET rest == repl \o SubSeq(code, j + 1, Len(code))
      kept == IF k = 0 THEN rest
              ELSE IF rest = <<>> THEN << [ind |-> k, toks |-> <<>>] >>
              ELSE << Indent(rest[1], k) >> \o Tail(rest)
  IN  SubSeq(code, 1, i - 1) \o kept

\* One line of a pattern made of literal text and line breaks.
\*   "text": the literal t and the line break (a pattern's first line: the
\*           match starts after the indentation found there, less p.ind
\*           spaces the pattern itself spells)
\*   "line": a line after a line break of the pattern: exactly p.ind spaces
\*           and t
Fits(l, p, first) ==
  /\ l.toks = << p.t >>
  /\ IF first THEN l.ind >= p.ind ELSE l.ind = p.ind

FitsAt(code, i, pats) ==
  /\ i + Len(pats) - 1 <= Len(code)
  /\ \A n \in 1..Len(pats) : Fits(code[i + n - 1], pats[n], n = 1)

\* code.replace(/pats/, repl): the first match only.
ReplaceFirst(code, pats, repl) ==
  LET at == { i \in 1..Len(code) : FitsAt(code, i, pats) }
  IN  IF at = {} THEN code
      ELSE LET i == Min(at)
           IN  Splice(code, i, i + Len(pats) - 1, repl, code[i].ind - pats[1].ind)

\* The end of a pattern /marker[\s\S]*?end/ at line j, the marker being on line i.
\*   "ends": the literal t and the line break, anywhere after the marker
\*   "has":  the literal t, then [^\n]* and the line break
\*   "line": a line break, p.ind spaces, t and the line break
\* The lines of the end after its first are "line"s.
EndFits(code, i, j, ends) ==
  LET l == code[j]
      p == ends[1]
      n == Len(l.toks)
  IN  /\ j + Len(ends) - 1 <= Len(code)
      /\ CASE p.k = "ends" -> n >= 1 /\ l.toks[n] = p.t /\ (j > i \/ n >= 2)
           [] p.k = "has"  -> \E m \in 1..n : l.toks[m] = p.t /\ (j > i \/ m >= 2)
           [] OTHER        -> j > i /\ l.ind = p.ind /\ l.toks = << p.t >>
      /\ \A m \in 2..Len(ends) : Fits(code[j + m - 1], ends[m], FALSE)

\* code.replace(/marker[\s\S]*?end/, ''): the leftmost marker, and the nearest
\* end after it.  No end after the leftmost marker: no match at all.
RemoveBlock(code, marker, ends) ==
  LET starts == { i \in 1..Len(code) :
                    Len(code[i].toks) >= 1 /\ code[i].toks[1] = marker }
  IN  IF starts = {} THEN code
      ELSE LET i == Min(starts)
               stops == { j \in i..Len(code) : EndFits(code, i, j, ends) }
           IN  IF stops = {} THEN code
               ELSE Splice(code, i, Min(stops) + Len(ends) - 1, <<>>, code[i].ind)

\* The same with the g flag: every match, left to right.
RECURSIVE RemoveBlocks(_, _, _)
RemoveBlocks(code, marker, ends) ==
  LET once == RemoveBlock(code, marker, ends)
  IN  IF once = code THEN code ELSE RemoveBlocks(once, marker, ends)

\* code.replace('anchor', 'anchor\ninserted'): a string pattern, the first
\* occurrence; what followed the anchor on its line now follows the insertion.
InsertAfter(code, anchor, inserted) ==
  LET at == { i \in 1..Len(code) : \E m \in 1..Len(code[i].toks) : code[i].toks[m] = anchor }
  IN  IF at = {} THEN code
      ELSE LET i == Min(at)
               l == code[i]
               m == Min({ x \in 1..Len(l.toks) : l.toks[x] = anchor })
           IN  SubSeq(code, 1, i - 1)
                 \o << [l EXCEPT !.toks = SubSeq(l.toks, 1, m)],
                       [ind |-> 0, toks |-> << inserted >> \o SubSeq(l.toks, m + 1, Len(l.toks))] >>
                 \o SubSeq(code, i + 1, Len(code))

T(t) == [k |-> "text", ind |-> 0, t |-> t]
Sp(i, t) == [k |-> "line", ind |-> i, t |-> t]
Ends(t) == [k |-> "ends", ind |-> 0, t |-> t]
Has(t) == [k |-> "has", ind |-> 0, t |-> t]

\* ------------------------------------------- cli.js: the rewrite of app.js

AuthImportLine == "import authRouter from \"#routes/auth.routes.js\";"
AuthMountLine == "app.use(\"/api/v1/auth\", authRouter);"

\* The mount line put after the error handler instead of after the marker.
AddAuthRouter_MountLast(code) ==
  InsertAfter(InsertAfter(code, "// Import routers", AuthImportLine),
              "app.use(errorHandler);", AuthMountLine)

AddAuthRouter(code) ==
  InsertAfter(InsertAfter(code, "// Import routers", AuthImportLine),
              "// Mount routers", AuthMountLine)

\* The import stripped and the app.use(cors({...})) block left in.
RemoveCors_ImportOnly(code) ==
  ReplaceFirst(code, << T("import cors from \"cors\";") >>, <<>>)

RemoveCors(code) ==
  RemoveBlock(ReplaceFirst(code, << T("import cors from \"cors\";") >>, <<>>),
              "// CORS setup", << Sp(0, ");") >>)

RemoveHelmet(code) ==
  ReplaceFirst(ReplaceFirst(code, << T("import helmet from \"helmet\";") >>, <<>>),
               << T("// Security HTTP headers"), Sp(0, "app.use(helmet());") >>, <<>>)

RemoveCookieParser(code) ==
  ReplaceFirst(ReplaceFirst(code, << T("import cookieParser from \"cookie-parser\";") >>, <<>>),
               << T("app.use(cookieParser());") >>, <<>>)

RemovePinoHttp(code) ==
  LET a == ReplaceFirst(code, << T("import pinoHttp from \"pino-http\";") >>, <<>>)
      b == RemoveBlocks(a, "// Logging", << Ends("})() ? : undefined"), Sp(0, "}));") >>)
  IN  RemoveBlocks(b, "// Logging", << Ends("})() : undefined"), Sp(0, "}));") >>)

RemoveRateLimit(code) ==
  RemoveBlocks(ReplaceFirst(code, << T("import rateLimit from \"express-rate-limit\";") >>, <<>>),
               "// Rate Limiting", << Has("app.use(\"/api\", limiter);") >>)

\* ---------------------------------------- cli.js: the rewrite of server.js

ListenLine == "app.listen(PORT, () => {"
ListenLog == "console.log('Server is running at port : ${PORT}');"

RemoveMongoose(code) ==
  LET a == ReplaceFirst(code, << T("import connectDB from \"#db/index.js\";") >>, <<>>)
      b == ReplaceFirst(a, << T("connectDB()"), Sp(4, ".then(() => {") >>, <<>>)
      c == ReplaceFirst(b, << Sp(4, "})"), Sp(4, ".catch((err) => {"),
                              Sp(8, "console.log(\"MONGO db connection failed !!! \", err);"),
                              Sp(4, "});") >>, <<>>)
  IN  ReplaceFirst(c, << Sp(8, ListenLine), Sp(12, ListenLog), Sp(8, "});") >>,
                   << L(0, ListenLine), L(4, ListenLog), L(0, "});") >>)

RemoveDotenv(code) ==
  RemoveBlock(ReplaceFirst(code, << T("import dotenv from \"dotenv\";") >>, <<>>),
              "// Load environment variables", << Ends("});") >>)

\* ------------------------------------------------------- cli.js: the prompts

\* Bounds of the model.
\* A run answers at most MaxDeclined yes/no questions with "n".
MaxDeclined == 2

Argv == { "", "my-api", "taken" }
NameAnswers == { "", "my-api", "taken" }
\* Directories of the current directory before the run.
CwdDirs == { "taken" }
PackageNameAnswers == { "", "  ", "my-pkg" }
DescriptionAnswers == { "", "An API" }
AuthorAnswers == { "" }
YesNoAnswers == { "", "y", "n", "N", "no", " n", "n " }
ManagerAnswers == { "", "npm", "yarn", " Yarn ", "PNPM", "bun", "deno" }

toLowerCase(s) ==
  CASE s = "N" -> "n"
    [] s = "Yarn" -> "yarn"
    [] s = "PNPM" -> "pnpm"
    [] OTHER -> s

trim(s) ==
  CASE s = "  " -> ""
    [] s = " n" -> "n"
    [] s = "n " -> "n"
    [] s = " Yarn " -> "Yarn"
    [] OTHER -> s

\* The answer compared after .trim().
Yes_Trimmed(answer) == toLowerCase(trim(answer)) # "n"

\* (await question(...)).toLowerCase() !== 'n'
Yes(answer) == toLowerCase(answer) # "n"

DepQuestions ==
  << "mongoose", "cors", "helmet", "cookie-parser", "pino-http",
     "express-rate-limit", "dotenv", "prettier" >>
\* Object.keys(deps), in insertion order.
DepKeys == << "express" >> \o DepQuestions

Range(s) == { s[i] : i \in 1..Len(s) }

\* The question after the deps object is built: the pino-pretty question is
\* asked only with pino-http.
AfterDeps_AlwaysAsks(d) == "pino-pretty"
AfterDeps(d) == IF d["pino-http"] THEN "pino-pretty" ELSE "packageManager"

AfterQuestion(q, d) ==
  CASE q = "packageJsonName" -> "description"
    [] q = "description" -> "author"
    [] q = "author" -> "mongoose"
    [] q = "prettier" -> AfterDeps(d)
    [] q \in Range(DepQuestions) ->
         DepQuestions[1 + CHOOSE i \in 1..Len(DepQuestions) : DepQuestions[i] = q]
    [] q = "pino-pretty" -> "packageManager"
    [] q = "packageManager" -> "initGit"
    [] q = "initGit" -> "initDocker"
    [] q = "initDocker" -> "initAuth"
    [] q = "initAuth" -> "initTests"
    [] OTHER -> "rlClose"

Questions ==
  { "projectName", "packageJsonName", "description", "author", "pino-pretty",
    "packageManager", "initGit", "initDocker", "initAuth", "initTests" }
    \cup Range(DepQuestions)

\* The answer compared without .trim().
ResolveManager_NoTrim(choice) ==
  IF toLowerCase(choice) \in { "yarn", "pnpm", "bun" }
  THEN toLowerCase(choice) ELSE "npm"

\* ['yarn', 'pnpm', 'bun'].includes(choice.trim().toLowerCase()) ? ... : 'npm'
ResolveManager(choice) ==
  IF toLowerCase(trim(choice)) \in { "yarn", "pnpm", "bun" }
  THEN toLowerCase(trim(choice)) ELSE "npm"

\* --------------------------------------------- cli.js: the files of a run

\* A path is the tuple of its segments below the project directory; << >> is
\* the project directory itself.  The content of a file the generator only
\* copies is the name of the template asset it is a copy of.
Dir == [kind |-> "dir"]
Asset(name) == [kind |-> "asset", of |-> name]
Text(lines) == [kind |-> "text", lines |-> lines]
Json(value) == [kind |-> "json", value |-> value]

IsUnder(p, d) == Len(p) >= Len(d) /\ SubSeq(p, 1, Len(d)) = d

\* fs.writeFileSync, fs.copyFileSync, fs.mkdirSync(..., { recursive: true })
Put(files, p, content) == ( p :> content ) @@ files
MkDir(files, p) == IF p \in DOMAIN files THEN files ELSE Put(files, p, Dir)
\* fs.rmSync(p, { recursive: true, force: true })
RmTree(files, p) == [q \in { r \in DOMAIN files : ~IsUnder(r, p) } |-> files[q]]
\* fs.appendFileSync: creates the file when there is none
AppendTo(files, p, chunk) ==
  Put(files, p, IF p \in DOMAIN files
                THEN [files[p] EXCEPT !.parts = Append(@, chunk)]
                ELSE [kind |-> "env", parts |-> << chunk >>])

ServerJsVariants == { "static", "graceful", "lazy" }
ServerJsTemplate(variant) ==
  CASE variant = "static" -> ServerJsStatic
    [] variant = "graceful" -> ServerJsGraceful
    [] OTHER -> ServerJsLazy

\* The src directory of the generator's package: what copyRecursiveSync finds.
TemplateSrc(variant) ==
  ( << "src" >> :> Dir )
  @@ ( << "src", "app.js" >> :> Text(AppJsTemplate) )
  @@ ( << "src", "server.js" >> :> Text(ServerJsTemplate(variant)) )
  @@ ( << "src", "controllers" >> :> Dir )
  @@ ( << "src", "controllers", "healthcheck.controller.js" >> :> Asset("healthcheck.controller.js") )
  @@ ( << "src", "routes" >> :> Dir )
  @@ ( << "src", "routes", "healthcheck.routes.js" >> :> Asset("healthcheck.routes.js") )
  @@ ( << "src", "middlewares" >> :> Dir )
  @@ ( << "src", "middlewares", "errorHandler.middleware.js" >> :> Asset("errorHandler.middleware.js") )
  @@ ( << "src", "utils" >> :> Dir )
  @@ ( << "src", "utils", "ApiError.js" >> :> Asset("ApiError.js") )
  @@ ( << "src", "utils", "ApiResponse.js" >> :> Asset("ApiResponse.js") )
  @@ ( << "src", "utils", "asyncHandler.js" >> :> Asset("asyncHandler.js") )
  @@ ( << "src", "db" >> :> Dir )
  @@ ( << "src", "db", "index.js" >> :> Asset("db/index.js") )
  @@ ( << "src", "models" >> :> Dir )
  @@ ( << "src", "models", "example-model.js" >> :> Asset("example-model.js") )

\* Assets of the generator's package a run looks for.
AllAssets == { "src", ".env.example", "templates/Dockerfile", "templates/docker-compose.yml",
               "templates/auth", "templates/tests" }
\* The packages a run may meet: the complete one, and ones an asset is missing from.
AssetSets == { AllAssets, AllAssets \ { "src" }, AllAssets \ { "templates/auth" } }

\* copyRecursiveSync(sourceDir, targetSrcDir)
CopySrcTree(files, variant) == TemplateSrc(variant) @@ files

CopyEnvFiles(files, have) ==
  IF ".env.example" \in have
  THEN Put(Put(files, << ".env.example" >>, [kind |-> "env", parts |-> << "asset" >>]),
           << ".env" >>, [kind |-> "env", parts |-> << "asset" >>])
  ELSE files

AddDocker(files, have, withMongoose) ==
  LET a == IF "templates/Dockerfile" \in have
           THEN Put(files, << "Dockerfile" >>, Asset("Dockerfile")) ELSE files
  IN  IF "templates/docker-compose.yml" \in have /\ withMongoose
      THEN Put(a, << "docker-compose.yml" >>, Asset("docker-compose.yml")) ELSE a

JwtEnvLines == "\nJWT_SECRET=supersecretjwtkey123\nBCRYPT_SALT=10\n"

AddAuth(files) ==
  LET a == MkDir(MkDir(MkDir(files, << "src", "controllers" >>), << "src", "middlewares" >>),
                 << "src", "routes" >>)
      b == Put(a, << "src", "controllers", "auth.controller.js" >>, Asset("auth.controller.js"))
      c == Put(b, << "src", "middlewares", "auth.middleware.js" >>, Asset("auth.middleware.js"))
      d == Put(c, << "src", "routes", "auth.routes.js" >>, Asset("auth.routes.js"))
      e == AppendTo(AppendTo(d, << ".env.example" >>, JwtEnvLines), << ".env" >>, JwtEnvLines)
  IN  Put(MkDir(e, << "src", "utils" >>), << "src", "utils", "hash.util.js" >>, Asset("hash.util.js"))

AddTests(files) ==
  Put(MkDir(files, << "tests" >>), << "tests", "healthcheck.test.js" >>, Asset("healthcheck.test.js"))

\* ------------------------------------------------ cli.js: package.json

PackageJsonTemplate(name, descr, auth, withPrettier, withTests) ==
  [ name |-> trim(name),
    version |-> "1.0.0",
    description |-> IF descr = "" THEN "A production-ready Node.js Express API" ELSE descr,
    main |-> "src/server.js",
    type |-> "module",
    scripts |-> ( "start" :> "node src/server.js" ) @@ ( "dev" :> "nodemon src/server.js" )
                @@ ( IF withPrettier THEN "format" :> "prettier --write \"src/**/*.{js,json}\""
                     ELSE << >> )
                @@ ( IF withTests
                     THEN "test" :> "node --experimental-vm-modules node_modules/jest/bin/jest.js"
                     ELSE << >> ),
    imports |-> ( "#*" :> "./src/*" ),
    keywords |-> << "express", "node", "api" >>,
    author |-> auth,
    license |-> "ISC" ]

\* The keys of deps taken as they are: prettier not filtered out.
DependenciesToInstall_Unfiltered(d, withAuth) ==
  SelectSeq(DepKeys, LAMBDA k : d[k])
    \o ( IF d["pino-http"] THEN << "pino" >> ELSE << >> )
    \o ( IF withAuth THEN << "jsonwebtoken", "bcryptjs" >> ELSE << >> )

DependenciesToInstall(d, withAuth) ==
  SelectSeq(DepKeys, LAMBDA k : d[k] /\ k # "prettier")
    \o ( IF d["pino-http"] THEN << "pino" >> ELSE << >> )
    \o ( IF withAuth THEN << "jsonwebtoken", "bcryptjs" >> ELSE << >> )

\* pino-pretty pushed with pino-http, whatever was answered about it.
DevDependenciesToInstall_PrettyWithPino(d, pinoPretty, withTests) ==
  << "nodemon" >>
    \o ( IF d["prettier"] THEN << "prettier" >> ELSE << >> )
    \o ( IF d["pino-http"] THEN << "pino-pretty" >> ELSE << >> )
    \o ( IF withTests THEN << "jest", "supertest" >> ELSE << >> )

DevDependenciesToInstall(d, pinoPretty, withTests) ==
  << "nodemon" >>
    \o ( IF d["prettier"] THEN << "prettier" >> ELSE << >> )
    \o ( IF pinoPretty THEN << "pino-pretty" >> ELSE << >> )
    \o ( IF withTests THEN << "jest", "supertest" >> ELSE << >> )

\* const latestDeps = {}; names.forEach(d => latestDeps[d] = 'latest')
Latest(names) == [ n \in Range(names) |-> "latest" ]

InjectDependencies(pkg, d, pinoPretty, withAuth, withTests) ==
  [ k \in DOMAIN pkg \cup { "dependencies", "devDependencies" } |->
      CASE k = "dependencies" -> Latest(DependenciesToInstall(d, withAuth))
        [] k = "devDependencies" -> Latest(DevDependenciesToInstall(d, pinoPretty, withTests))
        [] OTHER -> pkg[k] ]

\* packageManager === 'npm' ? 'npm install' : `${packageManager} install`
InstallTriggerCmd(manager) ==
  CASE manager = "npm" -> "npm install"
    [] manager = "yarn" -> "yarn install"
    [] manager = "pnpm" -> "pnpm install"
    [] OTHER -> "bun install"

GitIgnoreContent == << "node_modules", ".env", "dist", "build", "coverage" >>

\* ------------------------------------------------------------ the state

VARIABLES
  pc,                \* where init() of cli.js is
  asked,             \* a question is out, its answer not yet in
  declined,          \* yes/no questions answered "n" so far (bounds the model)
  projectName, packageJsonName, description, author,
  deps, installPinoPretty, packageManagerChoice, packageManager,
  initGit, initDocker, initAuth, initTests,
  assets,            \* the assets the generator's package holds
  serverVariant,     \* the src/server.js the generator's package holds
  fs,                \* the project directory: path -> content
  appJsCode, serverJsCode,
  cmds,              \* the commands run with execSync, in order
  stdout,            \* the steps announced on the console, in order
  exitCode,          \* -1 while the generator runs
  line,              \* the line readline has handed to init(), "" while it waits for one
  cwd,               \* the folders of the directory the generator is run in
  index,             \* the paths git add has staged
  head,              \* the paths of the commit
  \* node src/server.js, in the project a run has left
  phase,             \* "off", "link", "main", "loop" or "exited"
  ip,                \* the line of server.js the process comes to next
  nodeEnv,           \* process.env.NODE_ENV
  hasPinoPretty,     \* node_modules holds pino-pretty
  dbUp,              \* the database answers
  connection,        \* the promise of connectDB(): "none", "pending", "up", "failed"
  listeners,         \* the events of process with a listener
  rejections,        \* the rejected promises nothing handles
  transport,         \* the transport option given to pinoHttp
  listening,         \* app.listen was called
  trace,             \* what the process did, in order
  status,            \* its exit status, -1 while it runs
  closing,           \* server.close was called
  timers,            \* the timers set and not yet fired
  conns,             \* the connections with a request in flight
  \* a request to the app of src/app.js
  req,               \* the request being handled, NoReq between two requests
  at,                \* the place in the stack of app.use the request is at
  err,               \* the error handed to next(), NoErr when there is none
  res,               \* the responses sent to the request, in order
  level              \* the level pino-http logs the response at, "" before it has

answers == << projectName, packageJsonName, description, author, deps, installPinoPretty,
              packageManagerChoice, packageManager, initGit, initDocker, initAuth, initTests >>
package == << assets, serverVariant >>
work == << fs, appJsCode, serverJsCode, cmds, stdout >>
repo == << index, head >>
genVars == << pc, asked, declined, answers, package, line, cwd, repo, work, exitCode >>
shutdown == << closing, timers, conns >>
web == << req, at, err, res, level >>
node == << phase, ip, nodeEnv, hasPinoPretty, dbUp, connection, listeners, rejections,
           transport, listening, trace, status, shutdown, web >>

NoReq == [method |-> "", path |-> "", body |-> ""]
NoErr == [isApiError |-> FALSE, statusCode |-> 0, message |-> "", errors |-> << >>, stack |-> ""]

\* No process of the generated project yet.
NodeOff ==
  /\ phase = "off" /\ ip = 1
  /\ nodeEnv = "production" /\ hasPinoPretty = FALSE /\ dbUp = FALSE
  /\ connection = "none" /\ listeners = { } /\ rejections = { }
  /\ transport = "none" /\ listening = FALSE
  /\ trace = << >> /\ status = -1
  /\ closing = FALSE /\ timers = << >> /\ conns = 0
  /\ req = NoReq /\ at = 0 /\ err = NoErr /\ res = << >> /\ level = ""

AllYes == [ k \in Range(DepKeys) |-> TRUE ]

InitAnswers ==
  /\ projectName = "" /\ packageJsonName = "" /\ description = "" /\ author = ""
  /\ deps = AllYes /\ installPinoPretty = FALSE /\ packageManagerChoice = "" /\ packageManager = "npm"
  /\ initGit = TRUE /\ initDocker = TRUE /\ initAuth = TRUE /\ initTests = TRUE

InitGen ==
  /\ pc = "start" /\ asked = FALSE /\ declined = 0
  /\ InitAnswers
  /\ assets \in AssetSets
  /\ serverVariant \in ServerJsVariants
  /\ line = "" /\ cwd = CwdDirs /\ index = { } /\ head = { }
  /\ fs = << >>
  /\ appJsCode = << >> /\ serverJsCode = << >>
  /\ cmds = << >> /\ stdout = << >>
  /\ exitCode = -1
  /\ NodeOff

Goto(l) == pc' = l
Exit(code) == pc' = "exited" /\ exitCode' = code

\* ----------------------------------------------------- init(): the prompts

\* const projectNameArg = process.argv[2]
Start ==
  /\ pc = "start"
  /\ \E arg \in Argv :
       /\ projectName' = arg
       /\ Goto(IF arg = "" THEN "projectName" ELSE "checkName")
  /\ UNCHANGED << asked, declined, packageJsonName, description, author, deps,
                  installPinoPretty, packageManagerChoice, packageManager, initGit, initDocker, initAuth,
                  initTests, package, line, cwd, repo, node, work, exitCode >>

\* question(query) without its await: init() goes on to the next question
\* with the answer still to come.
Ask_NoAwait ==
  /\ pc \in Questions /\ ~asked
  /\ asked' = TRUE /\ line' = "" /\ Goto(AfterQuestion(pc, deps))
  /\ UNCHANGED << declined, answers, package, cwd, repo, node, work, exitCode >>

\* question(query): rl.question hands the query out; init() awaits the answer.
Ask ==
  /\ pc \in Questions /\ ~asked
  /\ asked' = TRUE /\ line' = ""
  /\ UNCHANGED << pc, declined, answers, package, cwd, repo, node, work, exitCode >>

AnswerProjectName ==
  /\ pc = "projectName" /\ asked
  /\ \E a \in NameAnswers : line' = a /\ projectName' = a
  /\ asked' = FALSE /\ Goto("checkName")
  /\ UNCHANGED << declined, packageJsonName, description, author, deps,
                  installPinoPretty, packageManagerChoice, packageManager, initGit, initDocker, initAuth,
                  initTests, package, cwd, repo, node, work, exitCode >>

\* The folder made before the name is looked up among the existing ones.
CheckName_AfterMkdir ==
  /\ pc = "checkName"
  /\ fs' = IF projectName = "" THEN fs ELSE ( << >> :> Dir ) @@ fs
  /\ IF projectName = "" \/ projectName \in cwd
     THEN Exit(1)
     ELSE Goto("packageJsonName") /\ UNCHANGED exitCode
  /\ UNCHANGED << asked, declined, answers, package, line, cwd, repo, node, appJsCode, serverJsCode, cmds, stdout >>

\* The two checks of the name: given, and not an existing folder.
CheckName ==
  /\ pc = "checkName"
  /\ IF projectName = "" \/ projectName \in cwd
     THEN Exit(1)
     ELSE Goto("packageJsonName") /\ UNCHANGED exitCode
  /\ UNCHANGED << asked, declined, answers, package, line, cwd, repo, node, work >>

AnswerPackageJsonName ==
  /\ pc = "packageJsonName" /\ asked
  /\ \E a \in PackageNameAnswers :
       line' = a /\ packageJsonName' = IF trim(a) = "" THEN projectName ELSE a
  /\ asked' = FALSE /\ Goto(AfterQuestion(pc, deps))
  /\ UNCHANGED << declined, projectName, description, author, deps,
                  installPinoPretty, packageManagerChoice, packageManager, initGit, initDocker, initAuth,
                  initTests, package, cwd, repo, node, work, exitCode >>

AnswerDescription ==
  /\ pc = "description" /\ asked
  /\ \E a \in DescriptionAnswers : line' = a /\ description' = a
  /\ asked' = FALSE /\ Goto(AfterQuestion(pc, deps))
  /\ UNCHANGED << declined, projectName, packageJsonName, author, deps,
                  installPinoPretty, packageManagerChoice, packageManager, initGit, initDocker, initAuth,
                  initTests, package, cwd, repo, node, work, exitCode >>

AnswerAuthor ==
  /\ pc = "author" /\ asked
  /\ \E a \in AuthorAnswers : line' = a /\ author' = a
  /\ asked' = FALSE /\ Goto(AfterQuestion(pc, deps))
  /\ UNCHANGED << declined, projectName, packageJsonName, description, deps,
                  installPinoPretty, packageManagerChoice, packageManager, initGit, initDocker, initAuth,
                  initTests, package, cwd, repo, node, work, exitCode >>

\* A yes/no answer, within the bound on the answers "n".
Counted(a) ==
  /\ declined' = IF Yes(a) THEN declined ELSE declined + 1
  /\ declined' <= MaxDeclined

AnswerDep ==
  /\ pc \in Range(DepQuestions) /\ asked
  /\ \E a \in YesNoAnswers :
       /\ Counted(a) /\ line' = a
       /\ deps' = [deps EXCEPT ![pc] = Yes(a)]
       /\ Goto(AfterQuestion(pc, deps'))
  /\ asked' = FALSE
  /\ UNCHANGED << projectName, packageJsonName, description, author,
                  installPinoPretty, packageManagerChoice, packageManager, initGit, initDocker, initAuth,
                  initTests, package, cwd, repo, node, work, exitCode >>

AnswerPinoPretty ==
  /\ pc = "pino-pretty" /\ asked
  /\ \E a \in YesNoAnswers : Counted(a) /\ line' = a /\ installPinoPretty' = Yes(a)
  /\ asked' = FALSE /\ Goto(AfterQuestion(pc, deps))
  /\ UNCHANGED << projectName, packageJsonName, description, author, deps,
                  packageManagerChoice, packageManager, initGit, initDocker, initAuth, initTests,
                  package, cwd, repo, node, work, exitCode >>

AnswerPackageManager ==
  /\ pc = "packageManager" /\ asked
  /\ \E a \in ManagerAnswers :
       line' = a /\ packageManagerChoice' = a /\ packageManager' = ResolveManager(a)
  /\ asked' = FALSE /\ Goto(AfterQuestion(pc, deps))
  /\ UNCHANGED << declined, projectName, packageJsonName, description, author, deps,
                  installPinoPretty, initGit, initDocker, initAuth, initTests,
                  package, cwd, repo, node, work, exitCode >>

AnswerInitGit ==
  /\ pc = "initGit" /\ asked
  /\ \E a \in YesNoAnswers : Counted(a) /\ line' = a /\ initGit' = Yes(a)
  /\ asked' = FALSE /\ Goto(AfterQuestion(pc, deps))
  /\ UNCHANGED << projectName, packageJsonName, description, author, deps,
                  installPinoPretty, packageManagerChoice, packageManager, initDocker, initAuth, initTests,
                  package, cwd, repo, node, work, exitCode >>

AnswerInitDocker ==
  /\ pc = "initDocker" /\ asked
  /\ \E a \in YesNoAnswers : Counted(a) /\ line' = a /\ initDocker' = Yes(a)
  /\ asked' = FALSE /\ Goto(AfterQuestion(pc, deps))
  /\ UNCHANGED << projectName, packageJsonName, description, author, deps,
                  installPinoPretty, packageManagerChoice, packageManager, initGit, initAuth, initTests,
                  package, cwd, repo, node, work, exitCode >>

AnswerInitAuth ==
  /\ pc = "initAuth" /\ asked
  /\ \E a \in YesNoAnswers : Counted(a) /\ line' = a /\ initAuth' = Yes(a)
  /\ asked' = FALSE /\ Goto(AfterQuestion(pc, deps))
  /\ UNCHANGED << projectName, packageJsonName, description, author, deps,
                  installPinoPretty, packageManagerChoice, packageManager, initGit, initDocker, initTests,
                  package, cwd, repo, node, work, exitCode >>

AnswerInitTests ==
  /\ pc = "initTests" /\ asked
  /\ \E a \in YesNoAnswers : Counted(a) /\ line' = a /\ initTests' = Yes(a)
  /\ asked' = FALSE /\ Goto(AfterQuestion(pc, deps))
  /\ UNCHANGED << projectName, packageJsonName, description, author, deps,
                  installPinoPretty, packageManagerChoice, packageManager, initGit, initDocker, initAuth,
                  package, cwd, repo, node, work, exitCode >>

\* The project folder made while readline is still open.
RlClose_MakesDir ==
  /\ pc = "rlClose"
  /\ fs' = MkDir(fs, << >>)
  /\ line' = "" /\ Goto("mkdir")
  /\ UNCHANGED << asked, declined, answers, package, cwd, repo, node, appJsCode, serverJsCode,
                  cmds, stdout, exitCode >>

\* rl.close()
RlClose ==
  /\ pc = "rlClose"
  /\ line' = "" /\ Goto("mkdir")
  /\ UNCHANGED << asked, declined, answers, package, cwd, repo, node, work, exitCode >>

\* ------------------------------------------- init(): the project directory

Say(step) == stdout' = Append(stdout, step)

\* fs.mkdirSync(projectPath, { recursive: true })
MakeProjectDir ==
  /\ pc = "mkdir"
  /\ fs' = MkDir(fs, << >>) /\ cwd' = cwd \cup { projectName }
  /\ Say("creating") /\ Goto("copySrc")
  /\ UNCHANGED << asked, declined, answers, package, line, repo, node, appJsCode, serverJsCode, cmds, exitCode >>

\* The template check removing the folder it cannot fill.
CopySrc_CleansUp ==
  /\ pc = "copySrc"
  /\ IF "src" \notin assets
     THEN Exit(1) /\ fs' = << >> /\ cwd' = cwd \ { projectName } /\ UNCHANGED stdout
     ELSE /\ fs' = CopySrcTree(fs, serverVariant)
          /\ Say("bootstrapping") /\ Goto("copyEnv") /\ UNCHANGED << exitCode, cwd >>
  /\ UNCHANGED << asked, declined, answers, package, line, repo, node, appJsCode, serverJsCode, cmds >>

\* 1. Copy src directory
CopySrc ==
  /\ pc = "copySrc"
  /\ IF "src" \notin assets
     THEN Exit(1) /\ UNCHANGED << fs, stdout >>
     ELSE /\ fs' = CopySrcTree(fs, serverVariant)
          /\ Say("bootstrapping") /\ Goto("copyEnv") /\ UNCHANGED exitCode
  /\ UNCHANGED << asked, declined, answers, package, line, cwd, repo, node, appJsCode, serverJsCode, cmds >>

\* 2. Copy .env.example
CopyEnv ==
  /\ pc = "copyEnv"
  /\ fs' = CopyEnvFiles(fs, assets)
  /\ Say("environment") /\ Goto("docker")
  /\ UNCHANGED << asked, declined, answers, package, line, cwd, repo, node, appJsCode, serverJsCode, cmds, exitCode >>

\* The Docker files added at the end of init(), after the install and git.
Docker_AfterGit ==
  \/ /\ pc = "docker" /\ Goto("auth")
     /\ UNCHANGED << asked, declined, answers, package, line, cwd, repo, node, work, exitCode >>
  \/ /\ pc = "success" /\ initDocker /\ "docker" \notin Range(stdout)
     /\ fs' = AddDocker(fs, assets, deps["mongoose"]) /\ Say("docker")
     /\ UNCHANGED << pc, asked, declined, answers, package, line, cwd, repo, node, appJsCode, serverJsCode, cmds, exitCode >>

\* 2b. Copy the Docker files
Docker ==
  /\ pc = "docker"
  /\ IF initDocker
     THEN fs' = AddDocker(fs, assets, deps["mongoose"]) /\ Say("docker")
     ELSE UNCHANGED << fs, stdout >>
  /\ Goto("auth")
  /\ UNCHANGED << asked, declined, answers, package, line, cwd, repo, node, appJsCode, serverJsCode, cmds, exitCode >>

\* A copyFileSync of a template that is missing throws; init() rejects and
\* init().catch exits 1.
Auth ==
  /\ pc = "auth"
  /\ IF ~initAuth
     THEN Goto("tests") /\ UNCHANGED << fs, stdout, exitCode >>
     ELSE IF "templates/auth" \notin assets
     THEN Exit(1) /\ Say("auth") /\ UNCHANGED fs
     ELSE fs' = AddAuth(fs) /\ Say("auth") /\ Goto("tests") /\ UNCHANGED exitCode
  /\ UNCHANGED << asked, declined, answers, package, line, cwd, repo, node, appJsCode, serverJsCode, cmds >>

Tests ==
  /\ pc = "tests"
  /\ IF ~initTests
     THEN Goto("readApp") /\ UNCHANGED << fs, stdout, exitCode >>
     ELSE IF "templates/tests" \notin assets
     THEN Exit(1) /\ Say("tests") /\ fs' = MkDir(fs, << "tests" >>)
     ELSE fs' = AddTests(fs) /\ Say("tests") /\ Goto("readApp") /\ UNCHANGED exitCode
  /\ UNCHANGED << asked, declined, answers, package, line, cwd, repo, node, appJsCode, serverJsCode, cmds >>

\* ------------------------------------------------- init(): src/app.js

AppJsPath == << "src", "app.js" >>
ServerJsPath == << "src", "server.js" >>
PackageJsonPath == << "package.json" >>

ReadAppJs ==
  /\ pc = "readApp"
  /\ IF AppJsPath \in DOMAIN fs
     THEN appJsCode' = fs[AppJsPath].lines /\ Goto("appAuth")
     ELSE UNCHANGED appJsCode /\ Goto("readServer")
  /\ UNCHANGED << asked, declined, answers, package, line, cwd, repo, node, fs, serverJsCode, cmds, stdout, exitCode >>

AppStep(here, cond, code, next) ==
  /\ pc = here
  /\ appJsCode' = IF cond THEN code ELSE appJsCode
  /\ Goto(next)
  /\ UNCHANGED << asked, declined, answers, package, line, cwd, repo, node, fs, serverJsCode, cmds, stdout, exitCode >>

AppAuth == AppStep("appAuth", initAuth, AddAuthRouter(appJsCode), "appCors")
AppCors == AppStep("appCors", ~deps["cors"], RemoveCors(appJsCode), "appHelmet")
AppHelmet == AppStep("appHelmet", ~deps["helmet"], RemoveHelmet(appJsCode), "appCookie")
AppCookie == AppStep("appCookie", ~deps["cookie-parser"], RemoveCookieParser(appJsCode), "appPino")
AppPino == AppStep("appPino", ~deps["pino-http"], RemovePinoHttp(appJsCode), "appRate")
AppRate == AppStep("appRate", ~deps["express-rate-limit"], RemoveRateLimit(appJsCode), "writeApp")

WriteAppJs ==
  /\ pc = "writeApp"
  /\ fs' = Put(fs, AppJsPath, Text(appJsCode))
  /\ Goto("readServer")
  /\ UNCHANGED << asked, declined, answers, package, line, cwd, repo, node, appJsCode, serverJsCode, cmds, stdout, exitCode >>

\* ------------------------------------------------ init(): src/server.js

ReadServerJs ==
  /\ pc = "readServer"
  /\ IF ServerJsPath \in DOMAIN fs
     THEN serverJsCode' = fs[ServerJsPath].lines /\ Goto("serverMongoose")
     ELSE UNCHANGED serverJsCode /\ Goto("packageJson")
  /\ UNCHANGED << asked, declined, answers, package, line, cwd, repo, node, fs, appJsCode, cmds, stdout, exitCode >>

\* if (!deps.mongoose): the four replaces, then the db directory is removed.
ServerMongoose ==
  /\ pc = "serverMongoose"
  /\ IF ~deps["mongoose"]
     THEN /\ serverJsCode' = RemoveMongoose(serverJsCode)
          /\ fs' = RmTree(fs, << "src", "db" >>)
     ELSE UNCHANGED << serverJsCode, fs >>
  /\ Goto("serverDotenv")
  /\ UNCHANGED << asked, declined, answers, package, line, cwd, repo, node, appJsCode, cmds, stdout, exitCode >>

ServerDotenv ==
  /\ pc = "serverDotenv"
  /\ serverJsCode' = IF ~deps["dotenv"] THEN RemoveDotenv(serverJsCode) ELSE serverJsCode
  /\ Goto("writeServer")
  /\ UNCHANGED << asked, declined, answers, package, line, cwd, repo, node, fs, appJsCode, cmds, stdout, exitCode >>

WriteServerJs ==
  /\ pc = "writeServer"
  /\ fs' = Put(fs, ServerJsPath, Text(serverJsCode))
  /\ Goto("packageJson")
  /\ UNCHANGED << asked, declined, answers, package, line, cwd, repo, node, appJsCode, serverJsCode, cmds, stdout, exitCode >>

\* ------------------------------------- init(): package.json, install, git

\* 3. Create package.json
WritePackageJson ==
  /\ pc = "packageJson"
  /\ fs' = Put(fs, PackageJsonPath,
               Json(PackageJsonTemplate(packageJsonName, description, author,
                                        deps["prettier"], initTests)))
  /\ Say("package.json") /\ Goto("inject")
  /\ UNCHANGED << asked, declined, answers, package, line, cwd, repo, node, appJsCode, serverJsCode, cmds, exitCode >>

\* JSON.parse(readFileSync), the two maps, writeFileSync(JSON.stringify)
InjectDeps ==
  /\ pc = "inject"
  /\ fs' = Put(fs, PackageJsonPath,
               Json(InjectDependencies(fs[PackageJsonPath].value, deps, installPinoPretty,
                                       initAuth, initTests)))
  /\ Say("configuring") /\ Goto("install")
  /\ UNCHANGED << asked, declined, answers, package, line, cwd, repo, node, appJsCode, serverJsCode, cmds, exitCode >>

\* execSync with its failure swallowed: init() goes on to the next step.
Run_Continues(cmd, ok, next) ==
  /\ cmds' = Append(cmds, cmd)
  /\ Goto(next)

\* execSync throws when the command fails: the catch block logs and init() ends.
Run(cmd, ok, next) ==
  /\ cmds' = Append(cmds, cmd)
  /\ Goto(IF ok THEN next ELSE "failed")

Install ==
  /\ pc = "install"
  /\ \E ok \in BOOLEAN :
       /\ Run(InstallTriggerCmd(packageManager), ok, IF initGit THEN "gitInit" ELSE "success")
       /\ fs' = IF ok THEN MkDir(fs, << "node_modules" >>) ELSE fs
  /\ Say("installing")
  /\ UNCHANGED << asked, declined, answers, package, line, cwd, repo, node, appJsCode, serverJsCode, exitCode >>

\* git init followed by git add, the write of .gitignore left out.
GitInit_SkipsIgnore ==
  /\ pc = "gitInit"
  /\ \E ok \in BOOLEAN :
       /\ Run("git init", ok, "gitAdd")
       /\ fs' = IF ok THEN MkDir(fs, << ".git" >>) ELSE fs
  /\ Say("git")
  /\ UNCHANGED << asked, declined, answers, package, line, cwd, repo, node, appJsCode, serverJsCode, exitCode >>

GitInit ==
  /\ pc = "gitInit"
  /\ \E ok \in BOOLEAN :
       /\ Run("git init", ok, "gitignore")
       /\ fs' = IF ok THEN MkDir(fs, << ".git" >>) ELSE fs
  /\ Say("git")
  /\ UNCHANGED << asked, declined, answers, package, line, cwd, repo, node, appJsCode, serverJsCode, exitCode >>

WriteGitIgnore ==
  /\ pc = "gitignore"
  /\ fs' = Put(fs, << ".gitignore" >>, [kind |-> "ignore", text |-> GitIgnoreContent])
  /\ Goto("gitAdd")
  /\ UNCHANGED << asked, declined, answers, package, line, cwd, repo, node, appJsCode, serverJsCode, cmds, stdout, exitCode >>

\* A pattern of .gitignore with no slash: a file or a folder of that name,
\* at any depth.
Ignored(p, patterns) == \E i \in 1..Len(p) : p[i] \in Range(patterns)

\* What git add . stages: the files of the working tree .gitignore does not
\* name, outside .git.  A folder is staged through its files; node_modules
\* stands for the packages the install has put in it.
Stages(files) ==
  LET patterns == IF << ".gitignore" >> \in DOMAIN files
                  THEN files[<< ".gitignore" >>].text ELSE << >>
  IN  { p \in DOMAIN files :
          /\ files[p].kind # "dir" \/ p = << "node_modules" >>
          /\ ~IsUnder(p, << ".git" >>)
          /\ ~Ignored(p, patterns) }

GitAdd ==
  /\ pc = "gitAdd"
  /\ \E ok \in BOOLEAN :
       /\ Run("git add .", ok, "gitCommit")
       /\ index' = IF ok THEN Stages(fs) ELSE index
  /\ UNCHANGED << asked, declined, answers, package, line, cwd, head, node, fs, appJsCode, serverJsCode, stdout, exitCode >>

GitCommit ==
  /\ pc = "gitCommit"
  /\ \E ok \in BOOLEAN :
       /\ Run("git commit -m \"initial commit\"", ok, "success")
       /\ head' = IF ok THEN index ELSE head
  /\ UNCHANGED << asked, declined, answers, package, line, cwd, index, node, fs, appJsCode, serverJsCode, stdout, exitCode >>

Success ==
  /\ pc = "success"
  /\ Say("success") /\ Goto("return")
  /\ UNCHANGED << asked, declined, answers, package, line, cwd, repo, node, fs, appJsCode, serverJsCode, cmds, exitCode >>

\* The catch block ending the process with status 1.
Failed_Exits ==
  /\ pc = "failed"
  /\ Say("failed") /\ Exit(1)
  /\ UNCHANGED << asked, declined, answers, package, line, cwd, repo, node, fs, appJsCode, serverJsCode, cmds >>

\* The catch block removing the project directory.
Failed_RollsBack ==
  /\ pc = "failed"
  /\ Say("failed") /\ Goto("return")
  /\ fs' = RmTree(fs, << >>)
  /\ UNCHANGED << asked, declined, answers, package, line, cwd, repo, node, appJsCode, serverJsCode, cmds, exitCode >>

\* The catch block going on to the success summary.
Failed_ThenSummary ==
  /\ pc = "failed"
  /\ Say("failed") /\ Goto("success")
  /\ UNCHANGED << asked, declined, answers, package, line, cwd, repo, node, fs, appJsCode, serverJsCode, cmds, exitCode >>

\* catch (err): 'Failed to install dependencies...'
Failed ==
  /\ pc = "failed"
  /\ Say("failed") /\ Goto("return")
  /\ UNCHANGED << asked, declined, answers, package, line, cwd, repo, node, fs, appJsCode, serverJsCode, cmds, exitCode >>

\* init() returns; nothing keeps the process alive.
Return ==
  /\ pc = "return"
  /\ Exit(0)
  /\ UNCHANGED << asked, declined, answers, package, line, cwd, repo, node, work >>


\* The generator run once more in the same directory, after a run that
\* failed: a new process, with the folders the runs before it have left.
Again ==
  /\ pc = "exited" /\ exitCode = 1
  /\ pc' = "start" /\ exitCode' = -1
  /\ asked' = FALSE /\ declined' = 0
  /\ projectName' = "" /\ packageJsonName' = "" /\ description' = "" /\ author' = ""
  /\ deps' = AllYes /\ installPinoPretty' = FALSE
  /\ packageManagerChoice' = "" /\ packageManager' = "npm"
  /\ initGit' = TRUE /\ initDocker' = TRUE /\ initAuth' = TRUE /\ initTests' = TRUE
  /\ line' = "" /\ fs' = << >> /\ appJsCode' = << >> /\ serverJsCode' = << >>
  /\ cmds' = << >> /\ stdout' = << >>
  /\ UNCHANGED << package, cwd, repo, node >>
\* ------------------------------------------ the statements of server.js

LinesOf(code) == { code[i] : i \in 1..Len(code) }
TokensOf(code) == UNION { Range(l.toks) : l \in LinesOf(code) }

StaticDbImport == "import connectDB from \"#db/index.js\";"
LazyDbImport == "const { default: connectDB } = await import(\"#db/index.js\");"
StaticAppImport == "import { app } from \"#app.js\";"
LazyAppImport == "const { app } = await import(\"#app.js\");"
DotenvConfig == "dotenv.config({"
ConnectCall == "connectDB()"
ThenLine == ".then(() => {"
CatchLine == ".catch((err) => {"
OnUncaughtException == "process.on(\"uncaughtException\", (err) => {"
OnUnhandledRejection == "process.on(\"unhandledRejection\", (err) => {"
OnSigterm == "process.on(\"SIGTERM\", () => gracefulShutdown(\"SIGTERM\"));"
OnSigint == "process.on(\"SIGINT\", () => gracefulShutdown(\"SIGINT\"));"

PinoPrettyProbe == "import(\"pino-pretty\");"
DbIndexPath == << "src", "db", "index.js" >>

\* The statement a line starts: its first token, "" for an empty line.
Statement(l) == IF l.toks = << >> THEN "" ELSE l.toks[1]

IsLine(l, ind, tok) == l.ind = ind /\ l.toks = << tok >>

\* connectDB() taken as a statement of its own: what follows it is not chained.
Chain_CallOnly(code, i) == [body |-> { }, catches |-> FALSE, last |-> i]

\* connectDB() on line i with what is chained to it:
\*   body:    the lines of the .then continuation
\*   catches: a .catch follows the continuation
\*   last:    the last line of the statement
Chain(code, i) ==
  IF ~( i < Len(code) /\ IsLine(code[i + 1], 4, ThenLine) )
  THEN [body |-> { }, catches |-> FALSE, last |-> i]
  ELSE LET close == Min({ j \in (i + 2)..Len(code) : IsLine(code[j], 4, "})") }
                      \cup { j \in (i + 2)..Len(code) : IsLine(code[j], 4, "});") })
           caught == /\ IsLine(code[close], 4, "})")
                     /\ close < Len(code) /\ IsLine(code[close + 1], 4, CatchLine)
       IN  [ body |-> (i + 2)..(close - 1),
             catches |-> caught,
             last |-> IF caught
                      THEN Min({ j \in (close + 2)..Len(code) : IsLine(code[j], 4, "});") })
                      ELSE close ]

ConnectLines(code) == { i \in 1..Len(code) : Statement(code[i]) = ConnectCall }
ChainIn(code) == Chain(code, Min(ConnectLines(code)))

Calls(l, tok) == tok \in Range(l.toks)

\* ------------------------------------------- node src/server.js: the process

ServerCode == fs[ServerJsPath].lines
AppCode == fs[AppJsPath].lines

Did(what) == trace' = Append(trace, what)
Die(code) == phase' = "exited" /\ status' = code

\* The evaluation of src/app.js.  The transport option of pinoHttp is
\*   process.env.NODE_ENV === "development" ? (function() { try { import("pino-pretty");
\*   return {target: 'pino-pretty', ...}; } catch (e) { return undefined; } })() : undefined
\* import() returns a promise and throws nothing: a package that is missing
\* rejects the promise, which nothing in app.js handles, and the function has
\* returned the transport by then.
EvaluateApp ==
  IF PinoPrettyProbe \notin TokensOf(AppCode)
  THEN Did("app.js") /\ UNCHANGED << transport, rejections >>
  ELSE IF nodeEnv = "development"
  THEN /\ trace' = trace \o << "probe", "app.js" >>
       /\ transport' = "pino-pretty"
       /\ rejections' = IF hasPinoPretty THEN rejections ELSE rejections \cup { "pino-pretty" }
  ELSE Did("app.js") /\ transport' = "undefined" /\ UNCHANGED rejections

\* node src/server.js in the project directory, once init() is over and the
\* packages are installed.  The static imports are resolved before anything
\* is evaluated: one that is missing ends the process.
Launch ==
  /\ pc = "exited" /\ exitCode = 0 /\ phase = "off"
  /\ ServerJsPath \in DOMAIN fs /\ << "node_modules" >> \in DOMAIN fs
  /\ \E env \in { "development", "production" }, pretty \in BOOLEAN, up \in BOOLEAN :
       nodeEnv' = env /\ hasPinoPretty' = pretty /\ dbUp' = up
  /\ IF StaticDbImport \in TokensOf(ServerCode) /\ DbIndexPath \notin DOMAIN fs
     THEN Die(1)
     ELSE phase' = "link" /\ UNCHANGED status
  /\ UNCHANGED << genVars, shutdown, web, ip, connection, listeners, rejections, transport, listening, trace >>

\* The modules of the static imports are evaluated first, in the order of the
\* import lines, wherever those lines stand in server.js.
EvaluateImport ==
  /\ phase = "link"
  /\ IF ip > Len(ServerCode)
     THEN phase' = "main" /\ ip' = 1 /\ UNCHANGED << trace, transport, rejections >>
     ELSE /\ ip' = ip + 1 /\ UNCHANGED phase
          /\ CASE Statement(ServerCode[ip]) = StaticAppImport -> EvaluateApp
               [] Statement(ServerCode[ip]) = StaticDbImport ->
                    Did("db/index.js") /\ UNCHANGED << transport, rejections >>
               [] OTHER -> UNCHANGED << trace, transport, rejections >>
  /\ UNCHANGED << genVars, shutdown, web, nodeEnv, hasPinoPretty, dbUp, connection, listeners,
                  listening, status >>

\* The body of server.js, a statement at a time.
Execute ==
  /\ phase = "main"
  /\ IF ip > Len(ServerCode)
     THEN /\ phase' = "loop"
          /\ UNCHANGED << ip, connection, listeners, rejections, transport, listening,
                          trace, status >>
     ELSE LET l == ServerCode[ip]
          IN  CASE Statement(l) = DotenvConfig ->
                     /\ Did("dotenv.config") /\ ip' = ip + 1
                     /\ UNCHANGED << phase, connection, listeners, rejections, transport,
                                     listening, status >>
                [] Statement(l) = LazyAppImport ->
                     /\ EvaluateApp /\ ip' = ip + 1
                     /\ UNCHANGED << phase, connection, listeners, listening, status >>
                [] Statement(l) = LazyDbImport ->
                     \* the awaited import of a module that is missing rejects:
                     \* the error of the entry module ends the process
                     /\ IF DbIndexPath \in DOMAIN fs
                        THEN Did("db/index.js") /\ UNCHANGED << phase, status >>
                        ELSE Did("ERR_MODULE_NOT_FOUND") /\ Die(1)
                     /\ ip' = ip + 1
                     /\ UNCHANGED << connection, listeners, rejections, transport, listening >>
                [] Statement(l) \in { OnUncaughtException, OnUnhandledRejection, OnSigterm, OnSigint } ->
                     /\ listeners' = listeners \cup { Statement(l) } /\ ip' = ip + 1
                     /\ UNCHANGED << phase, connection, rejections, transport, listening,
                                     trace, status >>
                [] Statement(l) = ConnectCall ->
                     /\ connection' = "pending" /\ Did("connectDB")
                     /\ ip' = Chain(ServerCode, ip).last + 1
                     /\ UNCHANGED << phase, listeners, rejections, transport, listening, status >>
                [] Statement(l) # ConnectCall /\ Calls(l, ListenLine) ->
                     /\ listening' = TRUE /\ Did("listen") /\ ip' = ip + 1
                     /\ UNCHANGED << phase, connection, listeners, rejections, transport, status >>
                [] OTHER ->
                     /\ ip' = ip + 1
                     /\ UNCHANGED << phase, connection, listeners, rejections, transport,
                                     listening, trace, status >>
  /\ UNCHANGED << genVars, shutdown, web, nodeEnv, hasPinoPretty, dbUp >>

\* connectDB() resolves: the .then continuation runs.
Connected ==
  /\ phase = "loop" /\ connection = "pending" /\ dbUp
  /\ connection' = "up"
  /\ IF \E i \in ChainIn(ServerCode).body : Calls(ServerCode[i], ListenLine)
     THEN listening' = TRUE /\ trace' = trace \o << "connected", "listen" >>
     ELSE UNCHANGED listening /\ Did("connected")
  /\ listeners' = listeners \cup
       { Statement(ServerCode[i]) : i \in { j \in ChainIn(ServerCode).body :
                                              Statement(ServerCode[j]) \in { OnSigterm, OnSigint } } }
  /\ UNCHANGED << genVars, shutdown, web, phase, ip, nodeEnv, hasPinoPretty, dbUp, rejections,
                  transport, status >>

\* connectDB() rejects: the .then continuation is skipped and the .catch
\* callback logs the error; the promise .catch returns is fulfilled.  With no
\* .catch the rejection is one nothing handles.
ConnectionFailed ==
  /\ phase = "loop" /\ connection = "pending" /\ ~dbUp
  /\ connection' = "failed"
  /\ IF ChainIn(ServerCode).catches
     THEN trace' = trace \o << "rejected", "MONGO db connection failed !!! " >>
          /\ UNCHANGED rejections
     ELSE Did("rejected") /\ rejections' = rejections \cup { "connectDB" }
  /\ UNCHANGED << genVars, shutdown, web, phase, ip, nodeEnv, hasPinoPretty, dbUp, listeners,
                  transport, listening, status >>

\* A rejection nothing handles is reported once the microtasks are done: at
\* the await of a lazy import, or after the body.  The listener of
\* unhandledRejection calls process.exit(1); with no listener node throws the
\* reason, and the listener of uncaughtException, or node itself, exits 1.
UnhandledRejection ==
  /\ rejections # { }
  /\ \/ phase = "loop"
     \/ /\ phase = "main" /\ ip > 1 /\ ip <= Len(ServerCode) + 1
        /\ Statement(ServerCode[ip - 1]) \in { LazyAppImport, LazyDbImport }
  /\ Did(IF OnUnhandledRejection \in listeners THEN "UNHANDLED REJECTION! Shutting down..."
         ELSE IF OnUncaughtException \in listeners THEN "UNCAUGHT EXCEPTION! Shutting down..."
         ELSE "ERR_UNHANDLED_REJECTION")
  /\ Die(1)
  /\ UNCHANGED << genVars, shutdown, web, ip, nodeEnv, hasPinoPretty, dbUp, connection, listeners,
                  rejections, transport, listening >>

\* Nothing is pending and no server listens: the event loop is empty and the
\* process ends with status 0.
Drain ==
  /\ phase = "loop" /\ connection # "pending" /\ rejections = { } /\ ~listening
  /\ \A i \in 1..Len(timers) : ~timers[i].ref
  /\ Die(0)
  /\ UNCHANGED << genVars, shutdown, web, ip, nodeEnv, hasPinoPretty, dbUp, connection, listeners,
                  rejections, transport, listening, trace >>


\* -------------------------------------- a request to the app of src/app.js

\* The middleware or router an app.use(...) line of app.js registers, "" for a
\* line that registers nothing.
Layer(l) ==
  IF l.toks = << >> THEN ""
  ELSE LET tok == l.toks[1]
       IN  CASE tok = "app.use(helmet());" -> "helmet"
             [] tok = "app.use(\"/api\", limiter);" -> "limiter"
             [] tok = "app.use(pinoHttp({" -> "pinoHttp"
             [] tok = "cors({" -> "cors"
             [] tok = "app.use(express.json({ limit: \"16kb\" }));" -> "json"
             [] tok = "app.use(express.urlencoded({ extended: true, limit: \"16kb\" }));" -> "urlencoded"
             [] tok = "app.use(express.static(\"public\")); " -> "static"
             [] tok = "app.use(cookieParser());" -> "cookieParser"
             [] tok = AuthMountLine -> "authRouter"
             [] tok = "app.use(\"/api/v1/healthcheck\", healthcheckRouter);" -> "healthcheckRouter"
             [] tok = "app.use(errorHandler);" -> "errorHandler"
             [] OTHER -> ""

\* The stack of the app: its registrations in the order of the lines.
Stack(code) ==
  SelectSeq([i \in 1..Len(code) |-> Layer(code[i])], LAMBDA name : name # "")

\* The requests of the model: the two routes of the healthcheck router, a body
\* express.json cannot parse and one over its limit, a route of the auth
\* router, and a path nothing is mounted at.
Requests ==
  { [method |-> "GET", path |-> "/api/v1/healthcheck", body |-> ""],
    [method |-> "GET", path |-> "/api/v1/healthcheck/error", body |-> ""],
    [method |-> "POST", path |-> "/api/v1/healthcheck", body |-> "{"],
    [method |-> "POST", path |-> "/api/v1/auth/login", body |-> "17kb"],
    [method |-> "POST", path |-> "/api/v1/auth/login", body |-> "{}"],
    [method |-> "GET", path |-> "/favicon.ico", body |-> ""] }

UnderApi(path) == path # "/favicon.ico"
UnderAuth(path) == path = "/api/v1/auth/login"

\* class ApiError extends Error: statusCode, data, message, success and errors
\* are its enumerable fields; the stack is the one given or the one captured.
ApiError(statusCode, message, errors, stack) ==
  [isApiError |-> TRUE, statusCode |-> statusCode, message |-> message, errors |-> errors,
   stack |-> IF stack = "" THEN "ApiError: at new ApiError" ELSE stack]

\* new ApiResponse(statusCode, data, message)
ApiResponse(statusCode, data, message) ==
  [statusCode |-> statusCode, data |-> data, message |-> message]

\* An error that is no ApiError: error.statusCode is 0 when it has none.
Thrown(statusCode, message) ==
  [isApiError |-> FALSE, statusCode |-> statusCode, message |-> message, errors |-> << >>,
   stack |-> "Error: at Layer.handle"]

\* healthcheck.controller.js
healthcheck ==
  [status |-> 200,
   body |-> ApiResponse(200, [status |-> "OK", timestamp |-> "Date.now()"],
                       "App is running smoothly")]
triggerError == ApiError(400, "This is a custom error thrown for testing purposes.", << >>, "")

\* errorHandler(err, req, res, next) with the status read from the error as
\* it came, before its conversion.
errorHandler_StatusOfErr(error, env) ==
  LET e == IF error.isApiError THEN error
           ELSE ApiError(IF error.statusCode # 0 THEN error.statusCode ELSE 500,
                         IF error.message # "" THEN error.message ELSE "Internal Server Error",
                         error.errors, error.stack)
      response == [statusCode |-> e.statusCode, data |-> "null", success |-> FALSE,
                   errors |-> e.errors, message |-> e.message]
  IN  [status |-> error.statusCode,
       body |-> IF env = "development" THEN response @@ [stack |-> e.stack] ELSE response]

\* errorHandler(err, req, res, next): res.status(error.statusCode).json(response)
errorHandler(error, env) ==
  LET e == IF error.isApiError THEN error
           ELSE ApiError(IF error.statusCode # 0 THEN error.statusCode ELSE 500,
                         IF error.message # "" THEN error.message ELSE "Internal Server Error",
                         error.errors, error.stack)
      response == [statusCode |-> e.statusCode, data |-> "null", success |-> FALSE,
                   errors |-> e.errors, message |-> e.message]
  IN  [status |-> e.statusCode,
       body |-> IF env = "development" THEN response @@ [stack |-> e.stack] ELSE response]

\* What a layer does with the request: "next", "throw" with the error, or
\* "send" with the response.
Next_ == [do |-> "next"]
Throw(error) == [do |-> "throw", error |-> error]
Send(response) == [do |-> "send", response |-> response]

\* express-rate-limit, mounted at /api: status 429 and the message once the
\* address is over the limit of the window.
limiter(request, over) ==
  IF UnderApi(request.path) /\ over
  THEN Send([status |-> 429, body |-> "Too many requests from this IP, please try again later"])
  ELSE Next_

\* express.json({ limit: "16kb" }): the errors of body-parser carry a statusCode.
json(request) ==
  CASE request.body = "{" -> Throw(Thrown(400, "Unexpected end of JSON input"))
    [] request.body = "17kb" -> Throw(Thrown(413, "request entity too large"))
    [] OTHER -> Next_

\* healthcheck.routes.js: router.route('/').get(healthcheck) and
\* router.route('/error').get(triggerError); asyncHandler hands what the
\* controller throws to next().
healthcheckRouter(request) ==
  CASE request.method = "GET" /\ request.path = "/api/v1/healthcheck" -> Send(healthcheck)
    [] request.method = "GET" /\ request.path = "/api/v1/healthcheck/error" -> Throw(triggerError)
    [] OTHER -> Next_

\* auth.routes.js: the controller is no part of these sources; it answers, or
\* throws an ApiError, or throws an error with no statusCode.
AuthOutcomes ==
  { Send([status |-> 200, body |-> ApiResponse(200, [status |-> "OK"], "Logged in")]),
    Throw(ApiError(401, "Invalid credentials", << >>, "")),
    Throw(Thrown(0, "secretOrPrivateKey must have a value")),
    Throw(Thrown(0, "")) }
authRouter(request, outcome) == IF UnderAuth(request.path) THEN outcome ELSE Next_

\* The layer at a place of the stack, called with the request.
Call(name, request, over, outcome) ==
  CASE name = "limiter" -> limiter(request, over)
    [] name = "json" -> json(request)
    [] name = "healthcheckRouter" -> healthcheckRouter(request)
    [] name = "authRouter" -> authRouter(request, outcome)
    [] OTHER -> Next_

\* The process that imports src/app.js: jest with the test of tests/, in the
\* project a run has installed.
LoadApp ==
  /\ pc = "exited" /\ exitCode = 0 /\ phase = "off"
  /\ AppJsPath \in DOMAIN fs /\ << "node_modules" >> \in DOMAIN fs
  /\ phase' = "test"
  /\ \E env \in { "development", "production", "test" } : nodeEnv' = env
  /\ UNCHANGED << genVars, shutdown, web, ip, hasPinoPretty, dbUp, connection, listeners,
                  rejections, transport, listening, trace, status >>

Receive ==
  /\ phase = "test" /\ req = NoReq
  /\ \E request \in Requests : req' = request
  /\ at' = 1 /\ err' = NoErr /\ res' = << >>
  /\ UNCHANGED << genVars, shutdown, level, phase, ip, nodeEnv, hasPinoPretty, dbUp, connection,
                  listeners, rejections, transport, listening, trace, status >>

\* One layer of the stack.  With an error in flight express skips the layers
\* that take no error, and without one the error handler; past the last layer
\* express itself answers 404.
Handle ==
  /\ phase = "test" /\ req # NoReq /\ res = << >>
  /\ IF at > Len(Stack(AppCode))
     THEN /\ res' = << [status |-> IF err = NoErr THEN 404 ELSE 500, body |-> "<html>"] >>
          /\ UNCHANGED << at, err >>
     ELSE LET name == Stack(AppCode)[at]
          IN  IF name = "errorHandler"
              THEN IF err = NoErr
                   THEN at' = at + 1 /\ UNCHANGED << err, res >>
                   ELSE res' = << errorHandler(err, nodeEnv) >> /\ UNCHANGED << at, err >>
              ELSE IF err # NoErr
              THEN at' = at + 1 /\ UNCHANGED << err, res >>
              ELSE \E over \in BOOLEAN, outcome \in AuthOutcomes :
                     LET did == Call(name, req, over, outcome)
                     IN  CASE did.do = "next" -> at' = at + 1 /\ UNCHANGED << err, res >>
                           [] did.do = "throw" ->
                                at' = at + 1 /\ err' = did.error /\ UNCHANGED res
                           [] OTHER -> res' = << did.response >> /\ UNCHANGED << at, err >>
  /\ UNCHANGED << genVars, shutdown, req, level, phase, ip, nodeEnv, hasPinoPretty, dbUp, connection,
                  listeners, rejections, transport, listening, trace, status >>

\* The response is out: the request is over.
Finish ==
  /\ phase = "test" /\ req # NoReq /\ res # << >>
  /\ req' = NoReq /\ at' = 0 /\ err' = NoErr /\ res' = << >>
  /\ UNCHANGED << genVars, shutdown, level, phase, ip, nodeEnv, hasPinoPretty, dbUp, connection,
                  listeners, rejections, transport, listening, trace, status >>

\* ------------------------------------------- the log line of a response

\* customLogLevel with the error looked at before the status.
customLogLevel_ErrorFirst(statusCode, error) ==
  IF statusCode >= 500 \/ error # NoErr THEN "error"
  ELSE IF statusCode >= 400 /\ statusCode < 500 THEN "warn"
  ELSE IF statusCode >= 300 /\ statusCode < 400 THEN "silent"
  ELSE "info"

\* customLogLevel: function (req, res, err) of the options given to pinoHttp
customLogLevel(statusCode, error) ==
  IF statusCode >= 400 /\ statusCode < 500 THEN "warn"
  ELSE IF statusCode >= 500 \/ error # NoErr THEN "error"
  ELSE IF statusCode >= 300 /\ statusCode < 400 THEN "silent"
  ELSE "info"

\* pino-http calls customLogLevel once the response is complete, with the
\* response and the error of the request when it has one.
onResFinished ==
  /\ phase = "test" /\ req # NoReq /\ res # << >> /\ level = ""
  /\ level' = customLogLevel(res[Len(res)].status, err)
  /\ UNCHANGED << genVars, shutdown, req, at, err, res, phase, ip, nodeEnv, hasPinoPretty, dbUp,
                  connection, listeners, rejections, transport, listening, trace, status >>

\* ------------------------------------------ node src/server.js: shutdown

\* Bounds of the model: the signals a process handles, and the connections
\* with a request in flight at a time.
MaxSignals == 2
MaxConns == 2

\* The signals the process has got so far.
Signalled == Len(SelectSeq(trace, LAMBDA did : did \in { "SIGTERM", "SIGINT" }))

HandlerOf(signal) == IF signal = "SIGTERM" THEN OnSigterm ELSE OnSigint

\* setTimeout(() => {...}, 10000).unref()
FallbackTimer == [after |-> 10000, ref |-> FALSE]

\* gracefulShutdown with no timer behind server.close.
Signal_NoFallback ==
  /\ phase = "loop" /\ rejections = { } /\ Signalled < MaxSignals
  /\ \E signal \in { "SIGTERM", "SIGINT" } :
       IF HandlerOf(signal) \in listeners
       THEN /\ Did(signal) /\ closing' = TRUE
            /\ UNCHANGED << phase, status, timers >>
       ELSE /\ Did(signal) /\ Die(IF signal = "SIGTERM" THEN 143 ELSE 130)
            /\ UNCHANGED << closing, timers >>
  /\ UNCHANGED << genVars, web, conns, ip, nodeEnv, hasPinoPretty, dbUp, connection,
                  listeners, rejections, transport, listening >>

\* SIGTERM or SIGINT comes.  A rejection nothing handles is reported at the end
\* of the turn it happens in, before the loop takes a signal.  With a listener
\* on the signal gracefulShutdown runs: the log line, server.close(callback),
\* and the timer of 10 seconds, unref'd; with none the signal ends the process.
Signal ==
  /\ phase = "loop" /\ rejections = { } /\ Signalled < MaxSignals
  /\ \E signal \in { "SIGTERM", "SIGINT" } :
       IF HandlerOf(signal) \in listeners
       THEN /\ Did(signal) /\ closing' = TRUE
            /\ timers' = Append(timers, FallbackTimer)
            /\ UNCHANGED << phase, status >>
       ELSE /\ Did(signal) /\ Die(IF signal = "SIGTERM" THEN 143 ELSE 130)
            /\ UNCHANGED << closing, timers >>
  /\ UNCHANGED << genVars, web, conns, ip, nodeEnv, hasPinoPretty, dbUp, connection,
                  listeners, rejections, transport, listening >>

\* A request comes in on a new connection: the server takes it while it
\* listens and server.close was not called.
Accept ==
  /\ phase = "loop" /\ listening /\ ~closing /\ conns < MaxConns
  /\ conns' = conns + 1
  /\ UNCHANGED << genVars, web, closing, timers, phase, ip, nodeEnv, hasPinoPretty, dbUp,
                  connection, listeners, rejections, transport, listening, trace, status >>

\* The request of a connection is answered and the connection ends.
EndConnection ==
  /\ phase = "loop" /\ conns > 0
  /\ conns' = conns - 1
  /\ UNCHANGED << genVars, web, closing, timers, phase, ip, nodeEnv, hasPinoPretty, dbUp,
                  connection, listeners, rejections, transport, listening, trace, status >>

\* The server has stopped listening and its connections have ended: the
\* callback of server.close logs and calls process.exit(0).
CloseCompletes ==
  /\ phase = "loop" /\ closing /\ conns = 0
  /\ Did("HTTP server closed.") /\ Die(0)
  /\ listening' = FALSE
  /\ UNCHANGED << genVars, web, shutdown, ip, nodeEnv, hasPinoPretty, dbUp, connection,
                  listeners, rejections, transport >>

\* The 10 seconds of a timer are over: its callback logs and calls
\* process.exit(1).
TimerFires ==
  /\ phase = "loop" /\ timers # << >>
  /\ timers' = Tail(timers)
  /\ Did("Could not close connections in time, forcing shutdown.") /\ Die(1)
  /\ UNCHANGED << genVars, web, closing, conns, ip, nodeEnv, hasPinoPretty, dbUp, connection,
                  listeners, rejections, transport, listening >>
\* ------------------------------------------------------ specifications

vars == << genVars, node >>

Next ==
  \/ Start \/ Ask \/ AnswerProjectName \/ CheckName
  \/ AnswerPackageJsonName \/ AnswerDescription \/ AnswerAuthor
  \/ AnswerDep \/ AnswerPinoPretty \/ AnswerPackageManager
  \/ AnswerInitGit \/ AnswerInitDocker \/ AnswerInitAuth \/ AnswerInitTests
  \/ RlClose \/ MakeProjectDir \/ CopySrc \/ CopyEnv \/ Docker \/ Auth \/ Tests
  \/ ReadAppJs \/ AppAuth \/ AppCors \/ AppHelmet \/ AppCookie \/ AppPino \/ AppRate
  \/ WriteAppJs
  \/ ReadServerJs \/ ServerMongoose \/ ServerDotenv \/ WriteServerJs
  \/ WritePackageJson \/ InjectDeps \/ Install
  \/ GitInit \/ WriteGitIgnore \/ GitAdd \/ GitCommit
  \/ Success \/ Failed \/ Return

Init == InitGen

\* A run of the generator, from its start.
Spec == Init /\ [][Next]_vars

\* The parts of init() taken alone, each from every state init() can reach it
\* in with a complete package: every combination of the answers that the part
\* or the files before it read.

\* The files when init() comes to the rewrite of app.js.
Scaffolded(variant, d, docker, auth, tests) ==
  LET a == CopyEnvFiles(CopySrcTree(MkDir(<< >>, << >>), variant), AllAssets)
      b == IF docker THEN AddDocker(a, AllAssets, d["mongoose"]) ELSE a
      c == IF auth THEN AddAuth(b) ELSE b
  IN  IF tests THEN AddTests(c) ELSE c

ScaffoldSaid(docker, auth, tests) ==
  << "creating", "bootstrapping", "environment" >>
    \o ( IF docker THEN << "docker" >> ELSE << >> )
    \o ( IF auth THEN << "auth" >> ELSE << >> )
    \o ( IF tests THEN << "tests" >> ELSE << >> )

\* app.js as init() writes it.
PatchedAppJs(d, auth) ==
  LET a == IF auth THEN AddAuthRouter(AppJsTemplate) ELSE AppJsTemplate
      b == IF d["cors"] THEN a ELSE RemoveCors(a)
      c == IF d["helmet"] THEN b ELSE RemoveHelmet(b)
      e == IF d["cookie-parser"] THEN c ELSE RemoveCookieParser(c)
      f == IF d["pino-http"] THEN e ELSE RemovePinoHttp(e)
  IN  IF d["express-rate-limit"] THEN f ELSE RemoveRateLimit(f)

\* server.js as init() writes it.
PatchedServerJs(variant, d) ==
  LET a == IF d["mongoose"] THEN ServerJsTemplate(variant)
           ELSE RemoveMongoose(ServerJsTemplate(variant))
  IN  IF d["dotenv"] THEN a ELSE RemoveDotenv(a)

AllDeps == { d \in [Range(DepKeys) -> BOOLEAN] : d["express"] }

\* The answers of a run that got to the files: any toggles, the other answers
\* as a run leaves them.
Answered ==
  /\ projectName = "my-api" /\ packageJsonName \in { "my-api", "my-pkg" }
  /\ description \in DescriptionAnswers /\ author \in AuthorAnswers
  /\ deps \in AllDeps
  /\ installPinoPretty \in { on \in BOOLEAN : on => deps["pino-http"] }
  /\ packageManagerChoice = "" /\ packageManager = "npm"
  /\ initGit = TRUE /\ initDocker = TRUE
  /\ initAuth \in BOOLEAN /\ initTests \in BOOLEAN
  /\ asked = FALSE /\ declined = 0
  /\ assets = AllAssets
  /\ cmds = << >> /\ exitCode = -1
  /\ line = "" /\ cwd = CwdDirs \cup { projectName } /\ index = { } /\ head = { }
  /\ stdout = ScaffoldSaid(initDocker, initAuth, initTests)
  /\ NodeOff

InitApp ==
  /\ Answered
  /\ packageJsonName = "my-api" /\ description = ""
  /\ serverVariant = "lazy"
  /\ pc = "readApp"
  /\ fs = Scaffolded(serverVariant, deps, initDocker, initAuth, initTests)
  /\ appJsCode = << >> /\ serverJsCode = << >>

NextApp ==
  \/ ReadAppJs \/ AppAuth \/ AppCors \/ AppHelmet \/ AppCookie \/ AppPino \/ AppRate
  \/ WriteAppJs

SpecApp == InitApp /\ [][NextApp]_vars

InitBootstrap ==
  /\ Answered
  /\ packageJsonName = "my-api" /\ description = ""
  /\ installPinoPretty = deps["pino-http"]
  /\ serverVariant \in ServerJsVariants
  /\ pc = "readServer"
  /\ appJsCode = PatchedAppJs(deps, initAuth)
  /\ fs = Put(Scaffolded(serverVariant, deps, initDocker, initAuth, initTests),
              AppJsPath, Text(appJsCode))
  /\ serverJsCode = << >>

NextBootstrap == ReadServerJs \/ ServerMongoose \/ ServerDotenv \/ WriteServerJs

SpecBootstrap == InitBootstrap /\ [][NextBootstrap]_vars

\* The files when init() comes to package.json.
Bootstrapped(variant, d, docker, auth, tests) ==
  LET a == Scaffolded(variant, d, docker, auth, tests)
      b == Put(a, AppJsPath, Text(PatchedAppJs(d, auth)))
      c == IF d["mongoose"] THEN b ELSE RmTree(b, << "src", "db" >>)
  IN  Put(c, ServerJsPath, Text(PatchedServerJs(variant, d)))

InitManifest ==
  /\ Answered
  /\ serverVariant = "lazy"
  /\ pc = "packageJson"
  /\ appJsCode = PatchedAppJs(deps, initAuth)
  /\ serverJsCode = PatchedServerJs(serverVariant, deps)
  /\ fs = Bootstrapped(serverVariant, deps, initDocker, initAuth, initTests)

NextManifest == WritePackageJson \/ InjectDeps

SpecManifest == InitManifest /\ [][NextManifest]_vars


\* A run from package.json on, and node src/server.js in the project it
\* leaves, for every server.js the package may hold and every answer that
\* server.js and the logger of app.js depend on.
InitRun ==
  /\ Answered
  /\ packageJsonName = "my-api" /\ description = ""
  /\ \A k \in Range(DepKeys) \ { "mongoose", "dotenv", "pino-http" } : deps[k]
  /\ installPinoPretty = deps["pino-http"]
  /\ initAuth = FALSE /\ initTests = FALSE
  /\ serverVariant \in ServerJsVariants
  /\ pc = "packageJson"
  /\ appJsCode = PatchedAppJs(deps, initAuth)
  /\ serverJsCode = PatchedServerJs(serverVariant, deps)
  /\ fs = Bootstrapped(serverVariant, deps, initDocker, initAuth, initTests)

NextRun ==
  \/ WritePackageJson \/ InjectDeps \/ Install
  \/ GitInit \/ WriteGitIgnore \/ GitAdd \/ GitCommit
  \/ Success \/ Failed \/ Return
  \/ Launch \/ EvaluateImport \/ Execute
  \/ Connected \/ ConnectionFailed \/ UnhandledRejection \/ Drain

SpecRun == InitRun /\ [][NextRun]_vars

\* A run from package.json on, and requests to the app of the src/app.js it
\* leaves, for every combination of the middleware toggles, with or without
\* the auth and the test boilerplate.
InitHttp ==
  /\ Answered
  /\ packageJsonName = "my-api" /\ description = ""
  /\ \A k \in { "mongoose", "dotenv", "prettier" } : deps[k]
  /\ installPinoPretty = deps["pino-http"]
  /\ serverVariant = "lazy"
  /\ pc = "packageJson"
  /\ appJsCode = PatchedAppJs(deps, initAuth)
  /\ serverJsCode = PatchedServerJs(serverVariant, deps)
  /\ fs = Bootstrapped(serverVariant, deps, initDocker, initAuth, initTests)

NextHttp ==
  \/ WritePackageJson \/ InjectDeps \/ Install
  \/ GitInit \/ WriteGitIgnore \/ GitAdd \/ GitCommit
  \/ Success \/ Failed \/ Return
  \/ LoadApp \/ Receive \/ Handle \/ Finish

SpecHttp == InitHttp /\ [][NextHttp]_vars

\* node src/server.js with the server.js of the graceful shutdown, the signals
\* it gets and the connections it serves.  A timer that is set fires once its
\* time is over, and the callback of server.close is called once the
\* connections have ended: the event loop of a process that runs does both.
InitShutdown == InitRun /\ serverVariant = "graceful"

NextShutdown ==
  \/ WritePackageJson \/ InjectDeps \/ Install
  \/ GitInit \/ WriteGitIgnore \/ GitAdd \/ GitCommit
  \/ Success \/ Failed \/ Return
  \/ Launch \/ EvaluateImport \/ Execute
  \/ Connected \/ ConnectionFailed \/ UnhandledRejection \/ Drain
  \/ Signal \/ Accept \/ EndConnection \/ CloseCompletes \/ TimerFires

SpecShutdown ==
  InitShutdown /\ [][NextShutdown]_vars /\ WF_vars(TimerFires) /\ WF_vars(CloseCompletes)

\* customLogLevel taken alone: a response of any status code, of a request
\* with or without an error, about to be logged.
StatusCodes == 100..599

InitLog ==
  /\ pc = "exited" /\ exitCode = 0 /\ asked = FALSE /\ declined = 0
  /\ projectName = "my-api" /\ packageJsonName = "my-api" /\ description = "" /\ author = ""
  /\ deps = AllYes /\ installPinoPretty = TRUE
  /\ packageManagerChoice = "" /\ packageManager = "npm"
  /\ initGit = TRUE /\ initDocker = TRUE /\ initAuth = FALSE /\ initTests = FALSE
  /\ assets = AllAssets /\ serverVariant = "lazy"
  /\ line = "" /\ cwd = CwdDirs \cup { projectName } /\ index = { } /\ head = { }
  /\ fs = << >> /\ appJsCode = << >> /\ serverJsCode = << >>
  /\ cmds = << >> /\ stdout = << >>
  /\ phase = "test" /\ ip = 1
  /\ nodeEnv \in { "development", "production", "test" }
  /\ hasPinoPretty = FALSE /\ dbUp = FALSE
  /\ connection = "none" /\ listeners = { } /\ rejections = { }
  /\ transport = "none" /\ listening = FALSE
  /\ trace = << >> /\ status = -1
  /\ closing = FALSE /\ timers = << >> /\ conns = 0
  /\ req \in Requests /\ at = 0
  /\ err \in { NoErr, triggerError, Thrown(0, "write EPIPE") }
  /\ \E code \in StatusCodes : res = << [status |-> code, body |-> ""] >>
  /\ level = ""

NextLog == onResFinished

SpecLog == InitLog /\ [][NextLog]_vars

\* Runs of a generator whose package has lost its src directory, one after
\* the other in the same directory.
InitAgain == InitGen /\ "src" \notin assets

NextAgain ==
  \/ Start \/ Ask \/ AnswerProjectName \/ CheckName
  \/ AnswerPackageJsonName \/ AnswerDescription \/ AnswerAuthor
  \/ AnswerDep \/ AnswerPinoPretty \/ AnswerPackageManager
  \/ AnswerInitGit \/ AnswerInitDocker \/ AnswerInitAuth \/ AnswerInitTests
  \/ RlClose \/ MakeProjectDir \/ CopySrc \/ Again

SpecAgain == InitAgain /\ [][NextAgain]_vars
\* ---------------------------------------------- reading the written app.js

WrittenAppJs == fs[AppJsPath].lines
AppJsWritten == pc = "readServer" /\ AppJsPath \in DOMAIN fs

\* The middlewares init() can strip, each with the package of its import line
\* and the identifier the import binds.
Middlewares == { "cors", "helmet", "cookie-parser", "pino-http", "express-rate-limit" }

ImportLineOf(m) ==
  CASE m = "cors" -> "import cors from \"cors\";"
    [] m = "helmet" -> "import helmet from \"helmet\";"
    [] m = "cookie-parser" -> "import cookieParser from \"cookie-parser\";"
    [] m = "pino-http" -> "import pinoHttp from \"pino-http\";"
    [] OTHER -> "import rateLimit from \"express-rate-limit\";"

\* The identifiers a line of app.js binds, and the ones it reads.
Binds(tok) ==
  CASE tok = "import cors from \"cors\";" -> { "cors" }
    [] tok = "import helmet from \"helmet\";" -> { "helmet" }
    [] tok = "import cookieParser from \"cookie-parser\";" -> { "cookieParser" }
    [] tok = "import pinoHttp from \"pino-http\";" -> { "pinoHttp" }
    [] tok = "import rateLimit from \"express-rate-limit\";" -> { "rateLimit" }
    [] tok = "const limiter = rateLimit({" -> { "limiter" }
    [] tok = AuthImportLine -> { "authRouter" }
    [] OTHER -> { }

Reads(tok) ==
  CASE tok = "cors({" -> { "cors" }
    [] tok = "app.use(helmet());" -> { "helmet" }
    [] tok = "app.use(cookieParser());" -> { "cookieParser" }
    [] tok = "app.use(pinoHttp({" -> { "pinoHttp" }
    [] tok = "const limiter = rateLimit({" -> { "rateLimit" }
    [] tok = "app.use(\"/api\", limiter);" -> { "limiter" }
    [] tok = AuthMountLine -> { "authRouter" }
    [] OTHER -> { }

BoundIn(code) == UNION { Binds(t) : t \in TokensOf(code) }
ReadIn(code) == UNION { Reads(t) : t \in TokensOf(code) }

\* The place of an app.use(...) registration in the order of the template;
\* 0 for a line that registers nothing.
RegistrationRank(l) ==
  IF l.toks = << >> THEN 0
  ELSE LET tok == l.toks[1]
       IN  CASE tok = "app.use(helmet());" -> 1
             [] tok = "app.use(\"/api\", limiter);" -> 2
             [] tok = "app.use(pinoHttp({" -> 3
             [] tok = "cors({" -> 4
             [] tok = "app.use(express.json({ limit: \"16kb\" }));" -> 5
             [] tok = "app.use(express.urlencoded({ extended: true, limit: \"16kb\" }));" -> 6
             [] tok = "app.use(express.static(\"public\")); " -> 7
             [] tok = "app.use(cookieParser());" -> 8
             [] tok = AuthMountLine -> 9
             [] tok = "app.use(\"/api/v1/healthcheck\", healthcheckRouter);" -> 9
             [] tok = "app.use(errorHandler);" -> 10
             [] OTHER -> 0

\* The ranks of the registrations of a text, in the order of its lines.
Registrations(code) ==
  LET ranks == [i \in 1..Len(code) |-> RegistrationRank(code[i])]
  IN  SelectSeq(ranks, LAMBDA r : r > 0)

\* The middleware of a rank of the template that a toggle removes.
ToggleOfRank(r) ==
  CASE r = 1 -> "helmet"
    [] r = 2 -> "express-rate-limit"
    [] r = 3 -> "pino-http"
    [] r = 4 -> "cors"
    [] r = 8 -> "cookie-parser"
    [] OTHER -> "express"

\* ------------------------------------------------------------- claims

\* C1: for every combination of the toggles, with or without the auth
\* boilerplate, the app.js that init() has written holds the import line of a
\* middleware exactly when its toggle is on, and reads no identifier (cors,
\* helmet, cookieParser, pinoHttp, rateLimit, limiter, authRouter) that no
\* line of the same file binds.
C1_ImportsMatchToggles ==
  AppJsWritten =>
    /\ \A m \in Middlewares : (ImportLineOf(m) \in TokensOf(WrittenAppJs)) <=> deps[m]
    /\ ReadIn(WrittenAppJs) \subseteq BoundIn(WrittenAppJs)

\* C1 witness: app.js written with the auth router added, two middlewares
\* stripped and three kept.
C1_Witness ==
  /\ AppJsWritten /\ initAuth
  /\ ~deps["cors"] /\ ~deps["pino-http"]
  /\ deps["helmet"] /\ deps["cookie-parser"] /\ deps["express-rate-limit"]
  /\ WrittenAppJs # AppJsTemplate
  /\ "authRouter" \in ReadIn(WrittenAppJs)
  /\ "cors" \notin BoundIn(WrittenAppJs)

\* C2: for every combination of the toggles, the registrations of the written
\* app.js are in the order helmet, rate limiter, request logger, CORS, JSON
\* body parser, URL-encoded body parser, static files, cookie parser, router
\* mounts, errorHandler: a toggle removes its registration and nothing else is
\* removed or moved, and errorHandler is there and is the last one.
C2_RegistrationOrder ==
  AppJsWritten =>
    LET regs == Registrations(WrittenAppJs)
    IN  /\ \A i \in 1..(Len(regs) - 1) :
             regs[i] < regs[i + 1] \/ (regs[i] = 9 /\ regs[i + 1] = 9)
        /\ Len(regs) >= 1 /\ regs[Len(regs)] = 10
        /\ \A r \in 1..10 : (r \in Range(regs)) <=> deps[ToggleOfRank(r)]
        /\ Len(SelectSeq(regs, LAMBDA r : r = 9)) = IF initAuth THEN 2 ELSE 1

\* C2 witness: app.js written with the rate limiter and the cookie parser
\* stripped and the auth router mounted: seven registrations are left, in order.
C2_Witness ==
  /\ AppJsWritten /\ initAuth
  /\ ~deps["express-rate-limit"] /\ ~deps["cookie-parser"]
  /\ deps["helmet"] /\ deps["pino-http"] /\ deps["cors"]
  /\ Registrations(WrittenAppJs) = << 1, 3, 4, 5, 6, 7, 9, 9, 10 >>

\* --------------------------------------------- reading the written server.js

WrittenServerJs == fs[ServerJsPath].lines
ServerJsWritten == pc = "packageJson" /\ ServerJsPath \in DOMAIN fs

\* The lines of server.js that name connectDB or the #db module.
DbReferences == { StaticDbImport, LazyDbImport, ConnectCall }

\* The statements of server.js that act when they run, other than the loading
\* of the environment and the imports.
Effects == { ConnectCall, ListenLine, OnUncaughtException, OnUnhandledRejection }
HasEffect(l) == Range(l.toks) \cap Effects # {}
FirstEffect(code) == Min({ i \in 1..Len(code) : HasEffect(code[i]) })

\* C4: when Mongoose is declined, the server.js that init() has written names
\* neither connectDB nor the #db module, and app.listen is the first statement
\* with an effect after the optional dotenv.config call, whichever server.js
\* the copied src directory held.
C4_NoDbReference ==
  ( ServerJsWritten /\ ~deps["mongoose"] ) =>
    /\ TokensOf(WrittenServerJs) \cap DbReferences = {}
    /\ \E i \in 1..Len(WrittenServerJs) : HasEffect(WrittenServerJs[i])
    /\ Calls(WrittenServerJs[FirstEffect(WrittenServerJs)], ListenLine)

\* The assets of the template that import mongoose.
ImportsMongoose(content) ==
  content.kind = "asset" /\ content.of \in { "db/index.js", "example-model.js" }

\* C5: when Mongoose is declined, the project directory a run leaves holds
\* neither src/db nor any schema-model file that imports mongoose.
C5_NoPersistenceAssets ==
  ( pc = "exited" /\ exitCode = 0 /\ ~deps["mongoose"] ) =>
    \A p \in DOMAIN fs :
      /\ ~IsUnder(p, << "src", "db" >>)
      /\ ~ImportsMongoose(fs[p])

\* C8: when pino-http is declined the pino-pretty question is never put, so no
\* answer to it can reach a file: installPinoPretty stays false and the
\* devDependencies of package.json never hold pino-pretty.
C8_PinoPrettyForcedOff ==
  ~deps["pino-http"] =>
    /\ pc # "pino-pretty"
    /\ ~installPinoPretty
    /\ ( PackageJsonPath \in DOMAIN fs /\ "devDependencies" \in DOMAIN fs[PackageJsonPath].value )
         => "pino-pretty" \notin DOMAIN fs[PackageJsonPath].value.devDependencies

\* C8 witness: a run that declined pino-http has written the dependency maps
\* of package.json.
C8_Witness ==
  /\ ~deps["pino-http"] /\ pc = "install"
  /\ "devDependencies" \in DOMAIN fs[PackageJsonPath].value
  /\ "nodemon" \in DOMAIN fs[PackageJsonPath].value.devDependencies

\* The packages the toggles stand for, prettier apart.
RuntimeToggles ==
  { "mongoose", "cors", "helmet", "cookie-parser", "pino-http", "express-rate-limit", "dotenv" }

\* C10: the dependencies map of the final package.json has exactly the keys
\* express, the packages of RuntimeToggles whose toggle is on, pino exactly
\* with pino-http, jsonwebtoken and bcryptjs exactly with the auth boilerplate;
\* prettier is never one of them.
C10_RuntimeDependencies ==
  pc = "install" =>
    DOMAIN fs[PackageJsonPath].value.dependencies =
      { "express" }
        \cup { k \in RuntimeToggles : deps[k] }
        \cup ( IF deps["pino-http"] THEN { "pino" } ELSE { } )
        \cup ( IF initAuth THEN { "jsonwebtoken", "bcryptjs" } ELSE { } )

\* C10 witness: the maps are written with prettier and the auth boilerplate
\* chosen and pino-http declined.
C10_Witness ==
  /\ pc = "install" /\ deps["prettier"] /\ initAuth /\ ~deps["pino-http"] /\ deps["mongoose"]
  /\ DOMAIN fs[PackageJsonPath].value.dependencies
       = { "express", "mongoose", "cors", "helmet", "cookie-parser", "express-rate-limit",
           "dotenv", "jsonwebtoken", "bcryptjs" }

\* ------------------------------------------- claims on the generated server

Happened(what) == what \in Range(trace)
Before(first, then) ==
  \A i \in 1..Len(trace) : trace[i] = then => \E j \in 1..(i - 1) : trace[j] = first

\* C3: with Mongoose, the generated server.js calls app.listen only in the
\* continuation of a connectDB() that resolved: when connectDB() rejects the
\* failure is logged and the process never listens.
C3_ListenOnlyWhenConnected ==
  deps["mongoose"] =>
    /\ listening => connection = "up"
    /\ Before("connected", "listen")
    /\ connection = "failed" =>
         ~listening /\ ~Happened("listen") /\ Happened("MONGO db connection failed !!! ")

\* C3 witness: the graceful-shutdown server.js, connectDB() rejected, and the
\* process is over without having listened.
C3_Witness ==
  /\ deps["mongoose"] /\ serverVariant = "graceful"
  /\ connection = "failed" /\ phase = "exited" /\ ~listening
  /\ Happened("connectDB") /\ Happened("rejected")

\* C6: with Mongoose, a connectDB() that rejects is fatal: the process that
\* saw the rejection ends with an exit status other than 0.
C6_FailedConnectionIsFatal ==
  ( deps["mongoose"] /\ connection = "failed" /\ phase = "exited" ) => status # 0

\* C7: the pino-pretty probe of app.js is made only when NODE_ENV is
\* 'development'; when pino-pretty is not installed the transport is
\* undefined and no rejection is left for nothing to handle.
C7_ProbeFallsBack ==
  Happened("app.js") =>
    /\ Happened("probe") => nodeEnv = "development"
    /\ ~hasPinoPretty =>
         /\ transport # "pino-pretty"
         /\ "pino-pretty" \notin rejections

\* C9: with dotenv, dotenv.config() has run by the time #app.js and the
\* database connector are evaluated.
C9_EnvLoadedFirst ==
  deps["dotenv"] =>
    /\ Before("dotenv.config", "app.js")
    /\ Before("dotenv.config", "db/index.js")

\* ------------------------------------------------ claims on the manifest

\* C11: the devDependencies map of the final package.json has exactly the
\* keys nodemon, prettier exactly with the Prettier toggle, pino-pretty
\* exactly when pino-pretty was chosen, jest and supertest exactly with the
\* test boilerplate.
C11_DevDependencies ==
  pc = "install" =>
    DOMAIN fs[PackageJsonPath].value.devDependencies =
      { "nodemon" }
        \cup ( IF deps["prettier"] THEN { "prettier" } ELSE { } )
        \cup ( IF installPinoPretty THEN { "pino-pretty" } ELSE { } )
        \cup ( IF initTests THEN { "jest", "supertest" } ELSE { } )

\* C11 witness: the maps are written for a run that took pino-http and the
\* tests, and declined pino-pretty and Prettier.
C11_Witness ==
  /\ pc = "install" /\ deps["pino-http"] /\ ~installPinoPretty /\ ~deps["prettier"] /\ initTests
  /\ DOMAIN fs[PackageJsonPath].value.devDependencies = { "nodemon", "jest", "supertest" }

\* ------------------------------------------- claims on the generator's run

\* The runs that end with status 1: no name, a folder of that name, no src
\* directory to copy, or a copy of a boilerplate file that is missing, which
\* makes init() reject.
NoName == projectName = ""
Collision == projectName \in CwdDirs
NoTemplateSrc == "src" \notin assets
Rejects ==
  \/ initAuth /\ "templates/auth" \notin assets
  \/ initTests /\ "templates/tests" \notin assets

\* C12: the generator ends with status 1 when no project name is given, the
\* target directory exists, the template src directory is missing or init()
\* rejects, and with status 0 in every other run.
C12_ExitStatus ==
  pc = "exited" =>
    exitCode = IF NoName \/ Collision \/ NoTemplateSrc \/ Rejects THEN 1 ELSE 0

\* C12 witness: a run whose install failed has ended, with status 0.
C12_Witness ==
  /\ pc = "exited" /\ exitCode = 0
  /\ stdout # << >> /\ stdout[Len(stdout)] = "failed"
  /\ ~NoName /\ ~Collision /\ ~NoTemplateSrc /\ ~Rejects

\* C13: when the target directory exists the generator ends with status 1
\* and has written nothing: no file or directory made, no command run.
C13_CollisionWritesNothing ==
  ( pc = "exited" /\ Collision ) =>
    exitCode = 1 /\ DOMAIN fs = { } /\ cmds = << >> /\ stdout = << >>

\* C13 witness: the name of an existing folder was typed at the prompt and
\* the run is over.
C13_Witness ==
  pc = "exited" /\ Collision /\ projectName = "taken" /\ exitCode = 1 /\ DOMAIN fs = { }

\* C14: a failure of the install or of a git command is caught and logged;
\* from then on no file or directory written before is removed or changed,
\* and the run does not end with status 1.
C14_FailureKeepsFiles ==
  /\ [] ( ( pc = "exited" /\ "failed" \in Range(stdout) ) => exitCode = 0 )
  /\ [] [ ( pc' = "failed" \/ "failed" \in Range(stdout') )
            => \A p \in DOMAIN fs : p \in DOMAIN fs' /\ fs'[p] = fs[p] ]_vars

\* C14 witness: git commit failed and the run is over: the files, the
\* installed packages and the repository are there.
C14_Witness ==
  /\ pc = "exited" /\ "failed" \in Range(stdout) /\ Len(cmds) = 4
  /\ { PackageJsonPath, AppJsPath, ServerJsPath, << "node_modules" >>, << ".gitignore" >> }
       \subseteq DOMAIN fs


\* ------------------------------------------------ the order of the steps

\* What a step of init() does to the files, the commands and the log.
CopiesStaticAssets == << "src" >> \notin DOMAIN fs /\ << "src" >> \in DOMAIN fs'
AddsDockerAssets == "docker" \notin Range(stdout) /\ "docker" \in Range(stdout')
RemovesPersistenceAssets == DbIndexPath \in DOMAIN fs /\ DbIndexPath \notin DOMAIN fs'
Rewrites(p) == p \in DOMAIN fs /\ p \in DOMAIN fs' /\ fs'[p] # fs[p]
Creates(p) == p \notin DOMAIN fs /\ p \in DOMAIN fs'
RunsInstall == cmds = << >> /\ cmds' # << >>
RunsGit == cmds # << >> /\ cmds' # cmds

\* What the steps leave behind.
AppJsAsCopied == AppJsPath \in DOMAIN fs /\ fs[AppJsPath] = Text(AppJsTemplate)
ServerJsAsCopied ==
  ServerJsPath \in DOMAIN fs /\ fs[ServerJsPath] = Text(ServerJsTemplate(serverVariant))
AppJsInPlace == AppJsPath \in DOMAIN fs /\ fs[AppJsPath] = Text(PatchedAppJs(deps, initAuth))
ServerJsInPlace ==
  ServerJsPath \in DOMAIN fs /\ fs[ServerJsPath] = Text(PatchedServerJs(serverVariant, deps))
PersistenceRemoved == \A p \in DOMAIN fs : ~IsUnder(p, << "src", "db" >>)
NoManifest == PackageJsonPath \notin DOMAIN fs
GitCommands == << "git init", "git add .", "git commit -m \"initial commit\"" >>
Committed == GitCommands[3] \in Range(cmds)

\* The steps that come in the same place in the claim and in cli.js: the copy
\* first, app.js before server.js before package.json, the install after the
\* manifest, git after the install.
CommonOrder ==
  /\ CopiesStaticAssets => fs = MkDir(<< >>, << >>) /\ cmds = << >>
  /\ Rewrites(AppJsPath) => ServerJsAsCopied /\ NoManifest /\ cmds = << >>
  /\ Rewrites(ServerJsPath) => AppJsInPlace /\ NoManifest /\ cmds = << >>
  /\ Creates(PackageJsonPath) => AppJsInPlace /\ ServerJsInPlace /\ cmds = << >>
  /\ RunsInstall =>
       /\ ~NoManifest /\ "devDependencies" \in DOMAIN fs[PackageJsonPath].value
       /\ cmds' = << InstallTriggerCmd(packageManager) >>
  /\ RunsGit =>
       /\ initGit /\ << "node_modules" >> \in DOMAIN fs
       /\ \E n \in 1..3 : cmds' = << InstallTriggerCmd(packageManager) >> \o SubSeq(GitCommands, 1, n)
  /\ Creates(<< ".gitignore" >>) => cmds = << InstallTriggerCmd(packageManager), "git init" >>

\* C15 (as claimed): the steps come in the order copy static assets, remove the
\* persistence assets when Mongoose is declined, write app.js, write server.js,
\* write package.json, install, git init and initial commit, and only then the
\* Docker assets.
C15_DockerAfterGit ==
  [][ /\ CommonOrder
      /\ RemovesPersistenceAssets => AppJsAsCopied /\ ServerJsAsCopied /\ NoManifest
      /\ Rewrites(AppJsPath) => ( ~deps["mongoose"] => PersistenceRemoved )
      /\ AddsDockerAssets =>
           /\ AppJsInPlace /\ ServerJsInPlace /\ cmds # << >>
           /\ initGit => Committed ]_vars

\* C15 (amended): the steps come in the order copy static assets, add the Docker
\* assets when chosen, write app.js, remove the persistence assets when Mongoose
\* is declined, write server.js, write package.json with its dependencies, run
\* the one install command, git init and initial commit.
C15_StepOrder ==
  [][ /\ CommonOrder
      /\ AddsDockerAssets =>
           /\ initDocker /\ AppJsAsCopied /\ ServerJsAsCopied /\ NoManifest /\ cmds = << >>
           /\ ~PersistenceRemoved
      /\ Rewrites(AppJsPath) => ~PersistenceRemoved /\ ( initDocker => "docker" \in Range(stdout) )
      /\ RemovesPersistenceAssets =>
           /\ ~deps["mongoose"] /\ AppJsInPlace /\ ServerJsAsCopied /\ NoManifest
           /\ initDocker => "docker" \in Range(stdout)
      /\ Rewrites(ServerJsPath) => ( ~deps["mongoose"] => PersistenceRemoved )
      /\ Creates(PackageJsonPath) => ( ~deps["mongoose"] => PersistenceRemoved ) ]_vars

C15_Witness ==
  /\ pc = "exited" /\ exitCode = 0
  /\ initDocker /\ ~deps["mongoose"] /\ ~deps["cors"] /\ initGit
  /\ cmds = << InstallTriggerCmd(packageManager) >> \o GitCommands
  /\ << "Dockerfile" >> \in DOMAIN fs /\ PersistenceRemoved
  /\ AppJsInPlace /\ ~AppJsAsCopied /\ ServerJsInPlace /\ ~ServerJsAsCopied
  /\ \E i, j \in 1..Len(stdout) : i < j /\ stdout[i] = "docker" /\ stdout[j] = "package.json"

\* ------------------------------------------------------ the prompt phase

\* The questions of init() in the order of their lines in cli.js.
QuestionOrder ==
  << "projectName", "packageJsonName", "description", "author" >> \o DepQuestions
    \o << "pino-pretty", "packageManager", "initGit", "initDocker", "initAuth", "initTests" >>
Rank(q) == CHOOSE i \in 1..Len(QuestionOrder) : QuestionOrder[i] = q

\* The configuration fields, each under the name of the question that binds it.
Config ==
  [ q \in Questions |->
      CASE q = "projectName" -> projectName
        [] q = "packageJsonName" -> packageJsonName
        [] q = "description" -> description
        [] q = "author" -> author
        [] q = "pino-pretty" -> installPinoPretty
        [] q = "packageManager" -> packageManager
        [] q = "initGit" -> initGit
        [] q = "initDocker" -> initDocker
        [] q = "initAuth" -> initAuth
        [] q = "initTests" -> initTests
        [] OTHER -> deps[q] ]

Asking == ~asked /\ asked'
Answering == asked /\ ~asked'

\* C16: in the prompt phase at most one question is outstanding, the next
\* question is asked only after the answer to the one before has arrived, the
\* answers are bound to the configuration fields in the order asked, and the
\* pino-pretty question is asked only when pino-http was accepted.
C16_OneQuestionAtATime ==
  /\ [] ( asked => pc \in Questions /\ ( pc = "pino-pretty" => deps["pino-http"] ) )
  /\ [] [ /\ Asking => pc' = pc /\ Config' = Config
          /\ ( pc \in Questions /\ pc' # pc ) => Answering
          /\ ( Config' # Config /\ pc # "start" ) => Answering
          /\ Answering =>
               /\ \A q \in Questions \ { pc } : Config'[q] = Config[q]
               /\ pc' # pc
               /\ pc' \in Questions =>
                    \/ pc' = QuestionOrder[Rank(pc) + 1]
                    \/ pc = "prettier" /\ ~deps'["pino-http"] /\ pc' = "packageManager" ]_vars

C16_Witness ==
  /\ pc = "initGit" /\ asked
  /\ ~deps["pino-http"] /\ ~deps["helmet"] /\ ~installPinoPretty
  /\ packageJsonName = "my-pkg" /\ description = "An API" /\ packageManager = "yarn"
  /\ initGit /\ initDocker /\ initAuth /\ initTests

\* --------------------------------------------------- the package manager

\* The answers of the model to the package-manager question, each with its
\* text without the surrounding blanks and in lower case.
TrimmedLowerCased ==
  ( "" :> "" ) @@ ( "npm" :> "npm" ) @@ ( "yarn" :> "yarn" ) @@ ( " Yarn " :> "yarn" )
    @@ ( "PNPM" :> "pnpm" ) @@ ( "bun" :> "bun" ) @@ ( "deno" :> "deno" )
InstallCommandOf ==
  ( "npm" :> "npm install" ) @@ ( "yarn" :> "yarn install" )
    @@ ( "pnpm" :> "pnpm install" ) @@ ( "bun" :> "bun install" )

\* C17: the package manager is yarn, pnpm or bun exactly when the answer, trimmed
\* and lower-cased, is that word, and npm for every other answer (the empty one
\* and unknown names too); the install command run is '<manager> install'.
C17_PackageManager ==
  /\ packageManagerChoice \in DOMAIN TrimmedLowerCased
  /\ \A m \in { "yarn", "pnpm", "bun" } :
       packageManager = m <=> TrimmedLowerCased[packageManagerChoice] = m
  /\ packageManager = "npm" <=>
       TrimmedLowerCased[packageManagerChoice] \notin { "yarn", "pnpm", "bun" }
  /\ cmds # << >> => cmds[1] = InstallCommandOf[packageManager]

C17_Witness ==
  /\ packageManagerChoice = " Yarn " /\ packageManager = "yarn"
  /\ cmds # << >> /\ cmds[1] = "yarn install"

\* ------------------------------------------------- the answers of the app

HealthcheckRequest == [method |-> "GET", path |-> "/api/v1/healthcheck", body |-> ""]
ErrorRequest == [method |-> "GET", path |-> "/api/v1/healthcheck/error", body |-> ""]
Answered_ == req # NoReq /\ res # << >>
\* The limiter let the request through.
Admitted == Answered_ /\ res[1].status # 429

\* C18: in a project generated with the test boilerplate, for every combination
\* of the middleware toggles, GET /api/v1/healthcheck is answered with status
\* 200, a body whose success field is true, and the body message
\* 'Api is runing properly'.
C18_HealthcheckAnswer ==
  ( initTests /\ req = HealthcheckRequest /\ Admitted ) =>
    /\ Len(res) = 1 /\ res[1].status = 200
    /\ "success" \in DOMAIN res[1].body /\ res[1].body.success = TRUE
    /\ res[1].body.message = "Api is runing properly"

\* The error handler has the error of the request to answer.
AtErrorHandler ==
  /\ req # NoReq /\ err # NoErr /\ res = << >>
  /\ at <= Len(Stack(AppCode)) /\ Stack(AppCode)[at] = "errorHandler"

\* C19: every error that reaches errorHandler gets one JSON response; its status
\* is the statusCode of the error when that is an ApiError or has a statusCode,
\* and 500 otherwise; the body holds the stack only when NODE_ENV is
\* 'development'; GET /api/v1/healthcheck/error is always answered with the
\* status-400 error envelope.
C19_ErrorEnvelope ==
  /\ [] ( ( Answered_ /\ err # NoErr ) =>
            /\ Len(res) = 1
            /\ res[1].status = IF err.isApiError \/ err.statusCode # 0 THEN err.statusCode ELSE 500
            /\ { "statusCode", "message" } \subseteq DOMAIN res[1].body
            /\ res[1].body.statusCode = res[1].status
            /\ "stack" \in DOMAIN res[1].body <=> nodeEnv = "development" )
  /\ [] ( ( req = ErrorRequest /\ Admitted ) =>
            /\ err = triggerError /\ res[1].status = 400
            /\ res[1].body.statusCode = 400 /\ res[1].body.success = FALSE
            /\ res[1].body.message = "This is a custom error thrown for testing purposes." )
  /\ [] [ AtErrorHandler => res' # << >> /\ err' = err ]_vars

C19_Witness ==
  /\ req = ErrorRequest /\ nodeEnv = "development" /\ ~deps["helmet"] /\ initAuth
  /\ err = triggerError /\ Len(res) = 1 /\ res[1].status = 400
  /\ res[1].body.stack # "" /\ res[1].body.success = FALSE

\* ------------------------------------------------------------- shutdown

LastDid == IF trace = << >> THEN "" ELSE trace[Len(trace)]

\* C20: with the server.js of the graceful shutdown, after SIGTERM or SIGINT has
\* come to the process that listens, the process always ends: with status 0
\* after server.close has completed, the connections in flight over, or else
\* with a status that is not 0 when the timer of 10 seconds fires; the timer is
\* unref'd.
C20_ShutdownTerminates ==
  /\ closing ~> phase = "exited"
  /\ [] ( closing => /\ listening \/ phase = "exited"
                     /\ "listen" \in Range(trace) )
  /\ [] ( \A i \in 1..Len(timers) : timers[i].after = 10000 /\ ~timers[i].ref )
  /\ [] ( ( closing /\ phase = "exited" ) =>
            \/ status = 0 /\ LastDid = "HTTP server closed." /\ conns = 0
            \/ status # 0 /\ LastDid = "Could not close connections in time, forcing shutdown." )

C20_Witness ==
  /\ phase = "exited" /\ closing /\ status = 1 /\ conns > 0
  /\ { "SIGTERM", "SIGINT" } \subseteq Range(trace)
  /\ LastDid = "Could not close connections in time, forcing shutdown."

\* ------------------------------------------------ the pino-pretty probe

\* The lines of the Logging block of app.js that name pino-pretty.
PinoPrettyReferences ==
  { "// Dynamically require pino-pretty if in dev and it exists, else undefined",
    PinoPrettyProbe, "target: 'pino-pretty'," }

\* C21: the app.js written into the project holds the pino-pretty probe exactly
\* when pino-pretty was selected (pino-http being on); with pino-http on and
\* pino-pretty declined, the Logging block names pino-pretty nowhere.
C21_ProbeOnlyWhenSelected ==
  AppJsWritten =>
    /\ PinoPrettyProbe \in TokensOf(WrittenAppJs) <=> ( deps["pino-http"] /\ installPinoPretty )
    /\ ( deps["pino-http"] /\ ~installPinoPretty ) =>
         TokensOf(WrittenAppJs) \cap PinoPrettyReferences = { }

\* --------------------------------------------- after a command has failed

CommandFailed == "failed" \in Range(stdout)

\* C22 (as claimed): after a failure of the install or of a git command the run
\* goes on to the end of the script and prints the success summary.
C22_SummaryAfterFailure ==
  ( pc = "exited" /\ CommandFailed ) => exitCode = 0 /\ "success" \in Range(stdout)

\* C22 (amended): after a failure of the install or of a git command the run
\* skips the commands that were left and the success summary, logs the failure
\* and ends with status 0.
C22_FailureSkipsSummary ==
  /\ [] ( CommandFailed => /\ "success" \notin Range(stdout)
                           /\ stdout[Len(stdout)] = "failed"
                           /\ pc \in { "return", "exited" }
                           /\ pc = "exited" => exitCode = 0 )
  /\ [] [ /\ pc = "failed" => pc' = "return" /\ stdout' = Append(stdout, "failed")
          /\ CommandFailed => cmds' = cmds /\ fs' = fs /\ stdout' = stdout ]_vars

C22_Witness ==
  /\ pc = "exited" /\ exitCode = 0 /\ CommandFailed
  /\ cmds = << InstallTriggerCmd(packageManager), "git init", "git add ." >>
  /\ << ".gitignore" >> \in DOMAIN fs /\ "success" \notin Range(stdout)

\* ------------------------------------------------- the level of a log line

Logged == level # ""
StatusLogged == res[Len(res)].status
ClientError == StatusLogged >= 400 /\ StatusLogged < 500
ServerError == StatusLogged >= 500
Redirection == StatusLogged >= 300 /\ StatusLogged < 400

\* C23 (as claimed): a response is logged at 'warn' for a 4xx status, at 'error'
\* for a 5xx status, at 'silent' for a 3xx status and at 'info' otherwise, and a
\* request with an error is logged at 'error' whatever the status code.
C23_ErrorWhateverStatus ==
  Logged =>
    IF err # NoErr THEN level = "error"
    ELSE level = ( IF ClientError THEN "warn" ELSE IF ServerError THEN "error"
                   ELSE IF Redirection THEN "silent" ELSE "info" )

\* C23 (amended): a 4xx response is logged at 'warn' with or without an error;
\* any other response is logged at 'error' when its status is 5xx or the request
\* has an error, and without an error at 'silent' for 3xx and 'info' for the rest.
C23_StatusBeforeError ==
  Logged =>
    /\ ClientError => level = "warn"
    /\ ( ~ClientError /\ ( ServerError \/ err # NoErr ) ) => level = "error"
    /\ ( Redirection /\ err = NoErr ) => level = "silent"
    /\ ( StatusLogged < 300 /\ err = NoErr ) => level = "info"

C23_Witness == Logged /\ StatusLogged = 400 /\ err = triggerError /\ level = "warn"

\* ------------------------------------------------ nothing before the answers

\* init() has not closed readline yet.
Prompting == pc \in Questions \cup { "start", "checkName", "rlClose" }

\* C24: nothing is created at the target location before every prompt has been
\* answered and readline is closed: while init() is at the prompts, however
\* far, the project folder does not exist and no command has been run, and every
\* step that writes is a step after rl.close().
C24_NothingBeforeAnswers ==
  /\ [] ( Prompting => fs = << >> /\ cwd = CwdDirs /\ cmds = << >> /\ index = { } )
  /\ [] ( fs # << >> => ~asked /\ line = "" )
  /\ [] [ ( fs' # fs \/ cwd' # cwd \/ cmds' # cmds ) => ~Prompting ]_vars

C24_Witness ==
  /\ pc = "rlClose" /\ line = "n" /\ ~initTests /\ declined = MaxDeclined
  /\ fs = << >> /\ cwd = CwdDirs

\* ---------------------------------------------------- git after the install

InstallSucceeded == << "node_modules" >> \in DOMAIN fs
Ran(cmd) == cmd \in Range(cmds)
LastCommand == cmds[Len(cmds)]
GitIgnorePath == << ".gitignore" >>

\* C25: git init is run only once the install has succeeded; after a failed
\* install neither git init, the write of .gitignore, git add nor git commit
\* happens, and a git command that fails is the last command of the run.
C25_GitOnlyAfterInstall ==
  /\ [] ( ( Ran("git init") \/ GitIgnorePath \in DOMAIN fs ) =>
            /\ initGit /\ InstallSucceeded
            /\ cmds[1] = InstallTriggerCmd(packageManager) /\ cmds[2] = "git init" )
  /\ [] ( ( CommandFailed /\ ~InstallSucceeded ) =>
            /\ cmds = << InstallTriggerCmd(packageManager) >>
            /\ GitIgnorePath \notin DOMAIN fs /\ << ".git" >> \notin DOMAIN fs
            /\ index = { } /\ head = { } )
  /\ [] ( ( CommandFailed /\ LastCommand = "git init" ) =>
            GitIgnorePath \notin DOMAIN fs /\ index = { } /\ head = { } )
  /\ [] ( ( CommandFailed /\ LastCommand = "git add ." ) => index = { } /\ head = { } )
  /\ [] ( CommandFailed => head = { } )
  /\ [] [ ( pc = "failed" \/ CommandFailed ) => cmds' = cmds /\ fs' = fs /\ repo' = repo ]_vars

C25_Witness ==
  /\ pc = "exited" /\ initGit /\ CommandFailed /\ ~InstallSucceeded
  /\ cmds = << InstallTriggerCmd(packageManager) >> /\ packageManager = "pnpm"

\* ------------------------------------------------- the template is missing

TemplateMissing == "src" \notin assets
\* The run has ended at the check of the template: the folder was announced
\* and nothing else.
TemplateError == pc = "exited" /\ stdout = << "creating" >>
\* The run has ended at the check of the name, the name being that of a folder
\* a run before it has made.
AlreadyExists ==
  pc = "exited" /\ stdout = << >> /\ projectName \in cwd \ CwdDirs

\* C26: with the src directory of the template missing the generator exits with
\* status 1 after it has made the project folder, which it leaves empty; a run
\* after it with the same name ends at the check of the name, with status 1,
\* and does not come to the check of the template.
C26_TemplateErrorLeavesFolder ==
  /\ [] ( TemplateError =>
            /\ TemplateMissing /\ exitCode = 1
            /\ fs = ( << >> :> Dir ) /\ projectName \in cwd )
  /\ [] ( ( TemplateMissing /\ pc = "exited" /\ projectName \notin CwdDirs \cup { "" } ) =>
            exitCode = 1 /\ projectName \in cwd )
  /\ [] [ ( pc = "checkName" /\ projectName \in cwd \ CwdDirs ) =>
            /\ pc' = "exited" /\ exitCode' = 1
            /\ fs' = fs /\ cwd' = cwd /\ stdout' = stdout ]_vars
  /\ [] ( ( pc \in { "mkdir", "copySrc" } ) => cwd \ { projectName } = CwdDirs )

C26_Witness == AlreadyExists /\ TemplateMissing /\ exitCode = 1 /\ fs = << >>

\* ------------------------------------------------------- the first commit

FilesOf(files) == { p \in DOMAIN files : files[p].kind # "dir" }
Secret(p) == p[1] \in { "node_modules", ".env" }
WritesGitIgnore == GitIgnorePath \notin DOMAIN fs /\ GitIgnorePath \in DOMAIN fs'

\* C27: with git selected and the install succeeded, .gitignore, naming
\* node_modules, .env, dist, build and coverage, is written after git init and
\* before git add, so the first commit holds neither node_modules nor .env and
\* holds every other file the run has generated.
C27_CommitLeavesOutSecrets ==
  /\ [] [ WritesGitIgnore =>
            /\ LastCommand = "git init" /\ << ".git" >> \in DOMAIN fs /\ InstallSucceeded
            /\ fs'[GitIgnorePath].text =
                 << "node_modules", ".env", "dist", "build", "coverage" >> ]_vars
  /\ [] ( Ran("git add .") => GitIgnorePath \in DOMAIN fs )
  /\ [] ( \A p \in index \cup head : ~Secret(p) )
  /\ [] ( head # { } =>
            /\ head = { p \in FilesOf(fs) : ~Secret(p) }
            /\ GitIgnorePath \in head )

C27_Witness ==
  /\ pc = "exited" /\ Committed /\ "success" \in Range(stdout)
  /\ << ".env" >> \in DOMAIN fs /\ InstallSucceeded
  /\ { << ".env.example" >>, AppJsPath, PackageJsonPath, GitIgnorePath } \subseteq head

\* ------------------------------------------------------ the yes/no toggles

YesNoQuestions == Range(DepQuestions) \cup { "pino-pretty", "initGit", "initDocker", "initAuth", "initTests" }
\* The raw answers that read "n" once lower-cased, and nothing else.
Declines == { "n", "N" }
AnswersYesNo == pc \in YesNoQuestions /\ asked /\ ~asked'

\* The toggle a yes/no question sets, after the step that answers it.
ToggleSet(q) ==
  CASE q \in Range(DepQuestions) -> deps'[q]
    [] q = "pino-pretty" -> installPinoPretty'
    [] q = "initGit" -> initGit'
    [] q = "initDocker" -> initDocker'
    [] q = "initAuth" -> initAuth'
    [] OTHER -> initTests'

\* C28: each of the yes/no toggles (the eight dependencies, pino-pretty, git,
\* Docker, auth, tests) is off exactly when the line given as the answer,
\* lower-cased and not trimmed, is 'n'; any other line, the empty one, 'no', ' n'
\* and 'n ' among them, turns it on.
C28_OffOnlyOnN ==
  [] [ AnswersYesNo =>
         /\ ToggleSet(pc) = ( line' \notin Declines )
         /\ line' \in { "", "no", " n", "n " } => ToggleSet(pc) ]_vars

C28_Witness ==
  /\ pc = "initDocker" /\ ~asked /\ line = " n" /\ initGit
  /\ ~deps["cors"] /\ deps["pino-http"] /\ ~installPinoPretty
====
